---- MODULE Spec2Model ----
(***************************************************************************)
(* Model of the manual question-answering service: the PDF segmenter       *)
(* (rag/parser.py), the manual repository (rag/store.py), the retrieval    *)
(* orchestrator (rag/chat.py) and the upload handler (app.py).             *)
(*                                                                         *)
(* Text is a sequence of one-character strings, so that joining,           *)
(* stripping, prefix matching and slicing are computed, not assumed.       *)
(***************************************************************************)
EXTENDS Integers, Sequences, FiniteSets, TLC

VARIABLES
    catalog,    \* data/catalog.json: the sequence of [id, title] entries
    dirs,       \* data/manuals/<id>/: per id the directory and its files
    nextId,     \* the ids handed out so far are 1..nextId-1
    up,         \* the upload handler's position, locals and temporary file
    last,       \* the last completed call and what it returned
    deleted,    \* ids for which delete_manual returned True
    pdoc,       \* segmenter: the PDF being parsed
    ppos,       \* segmenter: the number of elements consumed, -1 after the return
    pst,        \* segmenter: final_chunks, current_chunk, last_main_header_text
    ctxIn,      \* context assembly: the candidates and max_chars
    ctxOut,     \* context assembly: the parts _build_context produced
    imgCall,    \* image locator: the lookup's arguments and what it returned
    quizRun,    \* generate_quiz: its position, locals and what it returned
    catRun,     \* two sessions' catalog operations: each one's position and locals
    chatRun     \* chat session state: conversations, chat_titles, active_chat

vars == <<catalog, dirs, nextId, up, last, deleted,
          pdoc, ppos, pst, ctxIn, ctxOut, imgCall, quizRun, catRun, chatRun>>

----------------------------------------------------------------------------
(* Bounds of the model *)

MaxManuals == 2
MaxK == 3
MaxItems == 3
MaxCands == 2
MaxImages == 2
MaxQuestions == 3
MaxPool == 2
MaxBatch == 2
MaxChats == 3
MaxTurns == 1

----------------------------------------------------------------------------
(* Text helpers *)

Max(a, b) == IF a >= b THEN a ELSE b
Min(a, b) == IF a <= b THEN a ELSE b

Digits == {"0", "1", "2", "3", "4", "5", "6", "7", "8", "9"}
Spaces == {" ", "\n", "\t"}

RECURSIVE LStrip(_)
LStrip(s) == IF s # <<>> /\ Head(s) \in Spaces THEN LStrip(Tail(s)) ELSE s

RECURSIVE RStrip(_)
RStrip(s) ==
    IF s # <<>> /\ s[Len(s)] \in Spaces THEN RStrip(SubSeq(s, 1, Len(s) - 1)) ELSE s

\* str.strip()
Strip(s) == RStrip(LStrip(s))

\* sep.join(parts)
RECURSIVE Join(_, _)
Join(parts, sep) ==
    IF parts = <<>> THEN <<>>
    ELSE IF Len(parts) = 1 THEN parts[1]
    ELSE parts[1] \o sep \o Join(Tail(parts), sep)

\* s.replace("\n", " ")
ReplaceNewlines(s) == [i \in DOMAIN s |-> IF s[i] = "\n" THEN " " ELSE s[i]]

\* number of leading digits of s starting at position i
RECURSIVE DigitRun(_, _)
DigitRun(s, i) ==
    IF i <= Len(s) /\ s[i] \in Digits THEN 1 + DigitRun(s, i + 1) ELSE 0

\* re.match(r"^\d+\.\s*", text)
MatchLevel1(text) ==
    LET n == DigitRun(text, 1)
    IN  n >= 1 /\ n + 1 <= Len(text) /\ text[n + 1] = "."

\* re.match(r"^\d+-\d+\.\s*", text)
MatchLevel2(text) ==
    LET n == DigitRun(text, 1)
        m == DigitRun(text, n + 2)
    IN  /\ n >= 1
        /\ n + 1 <= Len(text) /\ text[n + 1] = "-"
        /\ m >= 1
        /\ n + m + 2 <= Len(text) /\ text[n + m + 2] = "."

----------------------------------------------------------------------------
(* Document segmenter, rag/parser.py *)

ImageData == <<"[", "I", "M", "A", "G", "E", "]">>
InitialContent == <<"I", "n", "i", "t", "i", "a", "l", " ", "C", "o", "n", "t", "e", "n", "t">>
HeaderSep == <<" ", "-", " ">>

\* all span sizes of the page's text blocks, in block order
RECURSIVE FontSizes(_)
FontSizes(blocks) ==
    IF blocks = <<>> THEN <<>>
    ELSE [i \in DOMAIN Head(blocks).spans |-> Head(blocks).spans[i].size]
         \o FontSizes(Tail(blocks))

Count(s, v) == Cardinality({i \in DOMAIN s : s[i] = v})

\* statistics.mode: the most frequent value, the first one met among equals
Mode(s) ==
    LET best == CHOOSE i \in DOMAIN s :
                    /\ \A j \in DOMAIN s : Count(s, s[j]) <= Count(s, s[i])
                    /\ \A j \in 1..(i - 1) : Count(s, s[j]) < Count(s, s[i])
    IN  s[best]

\* list.sort(key=y0): stable insertion sort
RECURSIVE InsertByY0(_, _)
InsertByY0(sorted, e) ==
    IF sorted = <<>> THEN <<e>>
    ELSE IF sorted[Len(sorted)].y0 <= e.y0 THEN Append(sorted, e)
    ELSE Append(InsertByY0(SubSeq(sorted, 1, Len(sorted) - 1), e), sorted[Len(sorted)])

RECURSIVE SortByY0(_)
SortByY0(s) ==
    IF s = <<>> THEN <<>>
    ELSE InsertByY0(SortByY0(SubSeq(s, 1, Len(s) - 1)), s[Len(s)])

\* A page is the sequence of its raw objects: text blocks
\* [type, y0, spans, in_table], tables [type, y0, data, empty] and images
\* [type, y0, bbox].  Sizes are in tenths of a point.
ExtractPageElements(page) ==
    LET blocks == SelectSeq(page, LAMBDA o : o.type = "text")
        tables == SelectSeq(page, LAMBDA o : o.type = "table")
        images == SelectSeq(page, LAMBDA o : o.type = "image")
        sizes  == FontSizes(blocks)
        base   == IF sizes # <<>> THEN Mode(sizes) ELSE 100
        kept   == SelectSeq(blocks, LAMBDA b : ~b.in_table)
        texts  == [i \in DOMAIN kept |->
                     [type |-> "text", y0 |-> kept[i].y0,
                      spans |-> kept[i].spans, base_font |-> base]]
        tabs   == SelectSeq(tables, LAMBDA t : ~t.empty)
    IN  SortByY0(texts \o tabs \o images)

\* `if bbox:` on a rectangle is false only for the all-zero rectangle
BBoxTruthy(b) == ~(b.x0 = 0 /\ b.y0 = 0 /\ b.x1 = 0 /\ b.y1 = 0)

ElemData(elem) == IF elem.type = "image" THEN ImageData ELSE elem.data

NewChunk(header, content, page_num, has_image, bbox) ==
    [header |-> header, content |-> content, start_page |-> page_num,
     type |-> "section", has_image |-> has_image, image_bbox |-> bbox]

\* "".join(current_chunk["content"]).strip()
Merged(chunk) == Strip(Join(chunk.content, <<>>))

\* a flush that keeps the accumulator whatever its merged text
Flush_keeps_empty(st) ==
    IF st.cur = <<>> THEN st.final
    ELSE Append(st.final, [st.cur[1] EXCEPT !.content = Merged(st.cur[1])])

\* finalize the open accumulator: keep it only when its merged text is non-empty
Flush(st) ==
    IF st.cur = <<>> THEN st.final
    ELSE LET merged == Merged(st.cur[1])
         IN  IF merged # <<>>
             THEN Append(st.final, [st.cur[1] EXCEPT !.content = merged])
             ELSE st.final

\* " ".join(span texts).strip().replace("\n", " ")
BlockText(elem) ==
    ReplaceNewlines(Strip(Join([i \in DOMAIN elem.spans |-> elem.spans[i].text],
                               <<" ">>)))

\* a classification whose font thresholds are inclusive
ContentType_inclusive(elem, text) ==
    LET size == elem.spans[1].size
        byFont == IF 10 * size >= 15 * elem.base_font THEN "header_level_1"
                  ELSE IF 10 * size >= 12 * elem.base_font THEN "header_level_2"
                  ELSE "paragraph"
    IN  IF MatchLevel1(text) THEN "header_level_1"
        ELSE IF MatchLevel2(text) THEN "header_level_2"
        ELSE byFont

\* header_level_1 / header_level_2 / paragraph
ContentType(elem, text) ==
    LET size == elem.spans[1].size
        byFont == IF 10 * size > 15 * elem.base_font THEN "header_level_1"
                  ELSE IF 10 * size > 12 * elem.base_font THEN "header_level_2"
                  ELSE "paragraph"
    IN  IF MatchLevel1(text) THEN "header_level_1"
        ELSE IF MatchLevel2(text) THEN "header_level_2"
        ELSE byFont

\* an attach step that closes the open accumulator and starts a chunk for
\* the table or image
AttachStep_new_chunk(st, elem, page_num) ==
    LET isImg == elem.type = "image"
        bbox  == IF isImg /\ BBoxTruthy(elem.bbox) THEN <<elem.bbox>> ELSE <<>>
    IN  [st EXCEPT
            !.final = Flush(st),
            !.cur = <<NewChunk(InitialContent, <<ElemData(elem)>>, page_num, isImg, bbox)>>]

\* table or image element
AttachStep(st, elem, page_num) ==
    LET isImg == elem.type = "image"
        bbox  == IF isImg /\ BBoxTruthy(elem.bbox) THEN <<elem.bbox>> ELSE <<>>
    IN  IF st.cur # <<>>
        THEN LET c == st.cur[1]
             IN  [st EXCEPT !.cur = <<[c EXCEPT
                     !.content = Append(c.content, ElemData(elem)),
                     !.has_image = IF isImg THEN TRUE ELSE c.has_image,
                     !.image_bbox = IF bbox # <<>> THEN bbox ELSE c.image_bbox]>>]
        ELSE IF st.final = <<>>
        THEN [st EXCEPT !.cur =
                 <<NewChunk(InitialContent, <<ElemData(elem)>>, page_num, isImg, bbox)>>]
        ELSE \* final_chunks[-1]["content"] is a merged string: .insert raises
             [st EXCEPT !.raised = TRUE]

\* a text step that forgets the hierarchy: a level-2 header keeps its raw text
TextStep_flat_header(st, elem, page_num) ==
    LET text == BlockText(elem)
        ct   == ContentType(elem, text)
    IN  IF text = <<>> THEN st
        ELSE IF ct # "paragraph"
        THEN [st EXCEPT
                 !.final = Flush(st),
                 !.last = IF ct = "header_level_1" THEN text ELSE st.last,
                 !.cur = <<NewChunk(text, <<>>, page_num, FALSE, <<>>)>>]
        ELSE IF st.cur # <<>>
        THEN [st EXCEPT !.cur = <<[st.cur[1] EXCEPT
                                     !.content = Append(st.cur[1].content, text)]>>]
        ELSE st

\* text block element
TextStep(st, elem, page_num) ==
    LET text == BlockText(elem)
        ct   == ContentType(elem, text)
    IN  IF text = <<>> THEN st
        ELSE IF ct # "paragraph"
        THEN LET header == IF ct = "header_level_1" THEN text
                           ELSE IF st.last # <<>> THEN st.last \o HeaderSep \o text
                           ELSE text
             IN  [st EXCEPT
                     !.final = Flush(st),
                     !.last = IF ct = "header_level_1" THEN text ELSE st.last,
                     !.cur = <<NewChunk(header, <<>>, page_num, FALSE, <<>>)>>]
        ELSE IF st.cur # <<>>
        THEN [st EXCEPT !.cur = <<[st.cur[1] EXCEPT
                                     !.content = Append(st.cur[1].content, text)]>>]
        ELSE st

\* an iteration in which a table or image ends the section it is attached
\* to: the accumulator is finalized and none stays open
ParserStep_closes_section(st, elem, page_num) ==
    IF elem.type \in {"table", "image"}
    THEN LET r == AttachStep(st, elem, page_num)
         IN  IF r.cur # <<>> THEN [r EXCEPT !.final = Flush(r), !.cur = <<>>] ELSE r
    ELSE TextStep(st, elem, page_num)

\* one iteration of the element loop
ParserStep(st, elem, page_num) ==
    IF elem.type \in {"table", "image"}
    THEN AttachStep(st, elem, page_num)
    ELSE TextStep(st, elem, page_num)

ParserInit == [final |-> <<>>, cur |-> <<>>, last |-> <<>>, raised |-> FALSE]

\* flush last, then assign the ids chunk-1, chunk-2, ... (kept as the number)
ParserFinish(st) ==
    LET fin == Flush(st)
    IN  [i \in DOMAIN fin |->
            [header |-> fin[i].header, content |-> fin[i].content,
             start_page |-> fin[i].start_page, type |-> fin[i].type,
             has_image |-> fin[i].has_image, image_bbox |-> fin[i].image_bbox,
             id |-> i]]

RECURSIVE RunElems(_, _, _)
RunElems(st, elems, page_num) ==
    IF elems = <<>> \/ st.raised THEN st
    ELSE RunElems(ParserStep(st, Head(elems), page_num), Tail(elems), page_num)

RECURSIVE RunPages(_, _, _)
RunPages(st, doc, page_num) ==
    IF page_num > Len(doc) \/ st.raised THEN st
    ELSE RunPages(RunElems(st, ExtractPageElements(doc[page_num]), page_num),
                  doc, page_num + 1)

\* pdf_parser(pdf_path): [raised, chunks]
pdf_parser(doc) ==
    LET st == RunPages(ParserInit, doc, 1)
    IN  IF st.raised THEN [raised |-> TRUE, chunks |-> <<>>]
        ELSE [raised |-> FALSE, chunks |-> ParserFinish(st)]

----------------------------------------------------------------------------
(* Embedding client and manual index.  rag/embed.py and rag/index.py are   *)
(* not part of the sources at hand: they are modelled from the             *)
(* specification (sections 4.2 and 4.3).  A vector has two components,     *)
(* the numbers of "a" and of "b" in the text; the score of a row is its    *)
(* inner product with the query vector.                                    *)

Embed(text) == <<Count(text, "a"), Count(text, "b")>>

embed_query(query) == Embed(query)

embed_texts(texts) == [i \in DOMAIN texts |-> Embed(texts[i])]

build_faiss_ip_index(emb) == emb

InnerProduct(u, v) == u[1] * v[1] + u[2] * v[2]

\* row r (0-based) comes before row s in the result of a search
RanksBefore(index, qv, r, s) ==
    \/ InnerProduct(index[r + 1], qv) > InnerProduct(index[s + 1], qv)
    \/ InnerProduct(index[r + 1], qv) = InnerProduct(index[s + 1], qv) /\ r < s

\* search(index, query_vector, top_k): top_k (score, row) pairs by descending
\* score, padded with the sentinel row -1 when the index holds fewer rows
faiss_search(index, qv, top_k) ==
    LET n == Len(index)
        rank(r) == Cardinality({s \in 0..(n - 1) : RanksBefore(index, qv, s, r)}) + 1
        rowAt(p) == CHOOSE r \in 0..(n - 1) : rank(r) = p
    IN  [p \in 1..top_k |->
            IF p <= n
            THEN [score |-> InnerProduct(index[rowAt(p) + 1], qv), row |-> rowAt(p)]
            ELSE [score |-> -1000, row |-> -1]]

----------------------------------------------------------------------------
(* Manual repository, rag/store.py *)

\* id 0 is never handed out: an id that names no manual
AllIds == 0..MaxManuals

NoDir == [exists |-> FALSE, pdf |-> <<>>, meta |-> <<>>, chunks |-> <<>>,
          emb |-> <<>>, index |-> <<>>]

FileNames == {"pdf", "meta", "chunks", "emb", "index"}

CatalogIds(cat) == {cat[i].id : i \in DOMAIN cat}

list_manuals == catalog

\* uuid4().hex[:12]: an id that was never handed out before
NewManualId == nextId

\* a register_manual that puts the new entry at the head of the catalog
register_manual_prepend(title, pdf, fail) ==
    LET id   == NewManualId
        meta == [id |-> id, title |-> title, filename |-> "tmp.pdf",
                 created_at |-> "now", pages |-> <<>>, chunk_count |-> 0]
        d2   == [NoDir EXCEPT !.exists = TRUE, !.pdf = <<pdf>>, !.meta = <<meta>>]
    IN  IF fail # "none"
        THEN [dirs |-> [dirs EXCEPT ![id] = d2], catalog |-> catalog,
              raised |-> TRUE, id |-> id]
        ELSE [dirs |-> [dirs EXCEPT ![id] = d2],
              catalog |-> <<[id |-> id, title |-> title]>> \o catalog,
              raised |-> FALSE, id |-> id]

\* register_manual(title, pdf_src_path); `fail` names the step that raises.
\* Returns the new directory table, the new catalog and whether it raised.
register_manual(title, pdf, fail) ==
    LET id   == NewManualId
        d0   == [NoDir EXCEPT !.exists = TRUE]
        d1   == [d0 EXCEPT !.pdf = <<pdf>>]
        meta == [id |-> id, title |-> title, filename |-> "tmp.pdf",
                 created_at |-> "now", pages |-> <<>>, chunk_count |-> 0]
        d2   == [d1 EXCEPT !.meta = <<meta>>]
    IN  IF fail = "copy"
        THEN [dirs |-> [dirs EXCEPT ![id] = d0], catalog |-> catalog,
              raised |-> TRUE, id |-> id]
        ELSE IF fail = "meta"
        THEN [dirs |-> [dirs EXCEPT ![id] = d1], catalog |-> catalog,
              raised |-> TRUE, id |-> id]
        ELSE IF fail = "catalog"
        THEN [dirs |-> [dirs EXCEPT ![id] = d2], catalog |-> catalog,
              raised |-> TRUE, id |-> id]
        ELSE [dirs |-> [dirs EXCEPT ![id] = d2],
              catalog |-> Append(catalog, [id |-> id, title |-> title]),
              raised |-> FALSE, id |-> id]

\* an update_meta_counts that writes a fresh record instead of updating the
\* one it read: the title and the file name are lost
update_meta_counts_rebuilds(d, pages, chunk_count) ==
    [d EXCEPT !.meta = <<[id |-> d.meta[1].id, title |-> "", filename |-> "",
                          created_at |-> "now", pages |-> pages,
                          chunk_count |-> chunk_count]>>]

\* update_meta_counts(manual_id, pages, chunk_count)
update_meta_counts(d, pages, chunk_count) ==
    [d EXCEPT !.meta = <<[d.meta[1] EXCEPT !.pages = pages,
                                           !.chunk_count = chunk_count]>>]

\* one call of update_meta_counts in which `fail` names the step that raises:
\* reading meta.json (nothing written) or writing it (the file is left
\* truncated, unreadable from then on); writes counts the completed updates
UpdateMetaCall(d, pages, chunk_count, fail) ==
    IF d.meta = <<>> \/ fail = "read" THEN [d |-> d, raised |-> TRUE, writes |-> 0]
    ELSE IF fail = "write" THEN [d |-> [d EXCEPT !.meta = <<>>], raised |-> TRUE, writes |-> 0]
    ELSE [d |-> update_meta_counts(d, pages, chunk_count), raised |-> FALSE, writes |-> 1]

save_chunks(d, chunks) == [d EXCEPT !.chunks = <<chunks>>]

save_embeddings(d, emb) == [d EXCEPT !.emb = <<emb>>]

save_index(d, idx) == [d EXCEPT !.index = <<idx>>]

\* what a failed shutil.rmtree can leave: the directory untouched (the first
\* removal fails) or emptied (the final rmdir fails)
RmtreeLeftovers(d) ==
    {[f \in DOMAIN d |-> IF f \in gone THEN <<>> ELSE d[f]] : gone \in {{}, FileNames}}

\* a delete_manual whose filter keeps the entry it should drop
delete_manual_keeps_entry(id, fail, left) ==
    LET filtered == SelectSeq(catalog, LAMBDA m : m.id = id)
    IN  IF fail \in {"load", "save"}
        THEN [catalog |-> catalog, dirs |-> dirs, result |-> FALSE, raised |-> FALSE]
        ELSE IF dirs[id].exists /\ fail = "rmtree"
        THEN [catalog |-> filtered, dirs |-> [dirs EXCEPT ![id] = left],
              result |-> FALSE, raised |-> FALSE]
        ELSE [catalog |-> filtered, dirs |-> [dirs EXCEPT ![id] = NoDir],
              result |-> TRUE, raised |-> FALSE]

\* a delete_manual that removes the directory before it rewrites the catalog
delete_manual_dir_first(id, fail, left) ==
    LET filtered == SelectSeq(catalog, LAMBDA m : m.id # id)
    IN  IF dirs[id].exists /\ fail = "rmtree"
        THEN [catalog |-> catalog, dirs |-> [dirs EXCEPT ![id] = left],
              result |-> FALSE, raised |-> FALSE]
        ELSE IF fail \in {"load", "save"}
        THEN [catalog |-> catalog, dirs |-> [dirs EXCEPT ![id] = NoDir],
              result |-> FALSE, raised |-> FALSE]
        ELSE [catalog |-> filtered, dirs |-> [dirs EXCEPT ![id] = NoDir],
              result |-> TRUE, raised |-> FALSE]

\* delete_manual(manual_id); `fail` names the step that raises and `left`
\* the directory a failing rmtree leaves behind
delete_manual(id, fail, left) ==
    LET filtered == SelectSeq(catalog, LAMBDA m : m.id # id)
    IN  IF fail \in {"load", "save"}
        THEN [catalog |-> catalog, dirs |-> dirs, result |-> FALSE, raised |-> FALSE]
        ELSE IF dirs[id].exists /\ fail = "rmtree"
        THEN [catalog |-> filtered, dirs |-> [dirs EXCEPT ![id] = left],
              result |-> FALSE, raised |-> FALSE]
        ELSE [catalog |-> filtered, dirs |-> [dirs EXCEPT ![id] = NoDir],
              result |-> TRUE, raised |-> FALSE]

----------------------------------------------------------------------------
(* Retrieval orchestrator, rag/chat.py *)

\* a loop body without the row filter: a sentinel row -1 indexes the list from
\* its end, as chunks[-1] does, and a row beyond the list raises (manual skipped)
ManualCandidates_unfiltered(mid, qv, top_k, loadFails) ==
    LET d == dirs[mid]
    IN  IF mid \in loadFails \/ d.index = <<>> \/ d.chunks = <<>> THEN <<>>
        ELSE LET hits   == faiss_search(d.index[1], qv, top_k)
                 chunks == d.chunks[1]
                 pos(h) == IF h.row < 0 THEN Len(chunks) + 1 + h.row ELSE h.row + 1
             IN  IF \E i \in DOMAIN hits : pos(hits[i]) \notin DOMAIN chunks THEN <<>>
                 ELSE [i \in DOMAIN hits |->
                          [manual_id |-> mid, score |-> hits[i].score,
                           chunk |-> chunks[pos(hits[i])]]]

\* the loop body of _gather_candidates for one manual: the candidates it
\* appends; a failing load_index or load_chunks appends nothing
ManualCandidates(mid, qv, top_k, loadFails) ==
    LET d == dirs[mid]
    IN  IF mid \in loadFails \/ d.index = <<>> \/ d.chunks = <<>> THEN <<>>
        ELSE LET hits   == faiss_search(d.index[1], qv, top_k)
                 chunks == d.chunks[1]
                 valid  == SelectSeq(hits, LAMBDA h : ~(h.row < 0 \/ h.row >= Len(chunks)))
             IN  [i \in DOMAIN valid |->
                     [manual_id |-> mid, score |-> valid[i].score,
                      chunk |-> chunks[valid[i].row + 1]]]

RECURSIVE CandidatePool(_, _, _, _)
CandidatePool(manuals, qv, top_k, loadFails) ==
    IF manuals = <<>> THEN <<>>
    ELSE ManualCandidates(Head(manuals).id, qv, top_k, loadFails)
         \o CandidatePool(Tail(manuals), qv, top_k, loadFails)

RemoveAt(s, i) == SubSeq(s, 1, i - 1) \o SubSeq(s, i + 1, Len(s))

\* the first n candidates in pool order: per-manual results concatenated and cut
FirstN(n, cands) == SubSeq(cands, 1, Min(n, Len(cands)))

\* heapq.nlargest(n, cands, key=score): sorted by score descending, equal
\* scores in their original order, cut to n
RECURSIVE NLargest(_, _)
NLargest(n, cands) ==
    IF n <= 0 \/ cands = <<>> THEN <<>>
    ELSE LET i == CHOOSE i \in DOMAIN cands :
                    /\ \A j \in DOMAIN cands : cands[j].score <= cands[i].score
                    /\ \A j \in 1..(i - 1) : cands[j].score < cands[i].score
         IN  <<cands[i]>> \o NLargest(n - 1, RemoveAt(cands, i))

\* a _gather_candidates without the per-manual try/except: a manual that
\* fails to load makes the call raise
gather_candidates_unguarded(query, top_k, embedFails, loadFails) ==
    LET broken == {id \in CatalogIds(list_manuals) :
                      id \in loadFails \/ dirs[id].index = <<>> \/ dirs[id].chunks = <<>>}
    IN  IF embedFails \/ broken # {} THEN [raised |-> TRUE, cands |-> <<>>, embeds |-> 1]
        ELSE LET pool == CandidatePool(list_manuals, embed_query(query), top_k, loadFails)
             IN  [raised |-> FALSE, embeds |-> 1,
                  cands |-> IF pool # <<>> THEN NLargest(top_k, pool) ELSE <<>>]

\* a _gather_candidates that embeds the query inside the per-manual try: once
\* per manual, with a failing embedding skipped like a failing manual
gather_candidates_embed_per_manual(query, top_k, embedFails, loadFails) ==
    IF embedFails THEN [raised |-> FALSE, cands |-> <<>>, embeds |-> Len(list_manuals)]
    ELSE LET pool == CandidatePool(list_manuals, embed_query(query), top_k, loadFails)
         IN  [raised |-> FALSE, embeds |-> Len(list_manuals),
              cands |-> IF pool # <<>> THEN NLargest(top_k, pool) ELSE <<>>]

\* _gather_candidates(query, top_k): embeds counts the calls of embed_query
gather_candidates(query, top_k, embedFails, loadFails) ==
    IF embedFails THEN [raised |-> TRUE, cands |-> <<>>, embeds |-> 1]
    ELSE LET pool == CandidatePool(list_manuals, embed_query(query), top_k, loadFails)
         IN  [raised |-> FALSE, embeds |-> 1,
              cands |-> IF pool # <<>> THEN NLargest(top_k, pool) ELSE <<>>]

----------------------------------------------------------------------------
(* Image locator, rag/image_extractor.py.  An image object of a page is    *)
(* [type, y0, bbox, xref, broken]; extract_image raises for a broken one.  *)
(* Page coordinates are in hundredths of a unit.                           *)

\* tolerance: float = 5.0
Tolerance == 500

\* the image locator before any lookup
ImgIdle == [op |-> "none"]
QuizIdle == [pc |-> "idle"]
CatIdle == [pc |-> "idle"]
ChatIdle == [pc |-> "idle"]

Abs(x) == IF x < 0 THEN -x ELSE x

PageImages(doc, page_num) == SelectSeq(doc[page_num], LAMBDA o : o.type = "image")

\* extract_images_from_page(pdf_path, page_num): the bytes of the images whose
\* extraction succeeds, in enumeration order
extract_images_from_page(pdf, page_num) ==
    IF pdf = <<>> THEN <<>>
    ELSE IF page_num < 1 \/ page_num > Len(pdf[1]) THEN <<>>
    ELSE LET ok == SelectSeq(PageImages(pdf[1], page_num), LAMBDA o : ~o.broken)
         IN  [i \in DOMAIN ok |-> ok[i].xref]

\* get_first_image_from_page: <<>> stands for None
get_first_image_from_page(pdf, page_num) ==
    LET images == extract_images_from_page(pdf, page_num)
    IN  IF images # <<>> THEN <<images[1]>> ELSE <<>>

\* a comparison that excludes a difference of exactly the tolerance
BBoxMatches_strict(img, target) ==
    /\ Abs(img.x0 - target.x0) < Tolerance
    /\ Abs(img.y0 - target.y0) < Tolerance
    /\ Abs(img.x1 - target.x1) < Tolerance
    /\ Abs(img.y1 - target.y1) < Tolerance

\* abs(img_bbox.e - target_bbox.e) <= tolerance on the four edges
BBoxMatches(img, target) ==
    /\ Abs(img.x0 - target.x0) <= Tolerance
    /\ Abs(img.y0 - target.y0) <= Tolerance
    /\ Abs(img.x1 - target.x1) <= Tolerance
    /\ Abs(img.y1 - target.y1) <= Tolerance

\* a lookup by box that falls back to the first image of the page
get_image_by_bbox_fallback(pdf, page_num, bbox) ==
    IF pdf = <<>> THEN <<>>
    ELSE IF page_num < 1 \/ page_num > Len(pdf[1]) THEN <<>>
    ELSE LET hit == SelectSeq(PageImages(pdf[1], page_num),
                              LAMBDA o : BBoxMatches(o.bbox, bbox) /\ ~o.broken)
         IN  IF hit # <<>> THEN <<hit[1].xref>>
             ELSE get_first_image_from_page(pdf, page_num)

\* get_image_by_bbox(pdf_path, page_num, bbox): the first image whose box
\* matches and whose extraction succeeds; <<>> stands for None
get_image_by_bbox(pdf, page_num, bbox) ==
    IF pdf = <<>> THEN <<>>
    ELSE IF page_num < 1 \/ page_num > Len(pdf[1]) THEN <<>>
    ELSE LET hit == SelectSeq(PageImages(pdf[1], page_num),
                              LAMBDA o : BBoxMatches(o.bbox, bbox) /\ ~o.broken)
         IN  IF hit # <<>> THEN <<hit[1].xref>> ELSE <<>>

----------------------------------------------------------------------------
(* Context assembly and answer, rag/chat.py *)

MinSnippet == 800

\* a _build_context that forgets the floor of 800 characters
build_context_no_floor(cands, max_chars) ==
    [i \in DOMAIN cands |->
        LET ch          == cands[i].chunk
            content     == ch.content
            per_chunk   == max_chars \div Max(1, Len(cands))
            snippet_len == Min(Len(content), per_chunk)
        IN  [n |-> i, header |-> ch.header, start_page |-> ch.start_page,
             image_note |-> ch.has_image,
             snippet |-> SubSeq(content, 1, Min(snippet_len, Len(content)))]]

\* _build_context(cands, max_chars): one part per candidate; a part is kept
\* as the values its format string is filled with
build_context(cands, max_chars) ==
    [i \in DOMAIN cands |->
        LET ch          == cands[i].chunk
            content     == ch.content
            per_chunk   == max_chars \div Max(1, Len(cands))
            snippet_len == Max(MinSnippet, Min(Len(content), per_chunk))
        IN  [n |-> i, header |-> ch.header, start_page |-> ch.start_page,
             image_note |-> ch.has_image,
             snippet |-> SubSeq(content, 1, Min(snippet_len, Len(content)))]]

\* answer's choice of lookup: by box when the chunk carries one, else the
\* first image of the page; bbox is <<>> or <<box>>
LocateImage(pdf, page_num, bbox) ==
    IF bbox # <<>>
    THEN get_image_by_bbox(pdf, page_num, bbox[1])
    ELSE get_first_image_from_page(pdf, page_num)

Citation(cand) ==
    [title |-> cand.chunk.header, page |-> cand.chunk.start_page,
     score |-> cand.score, has_image |-> cand.chunk.has_image]

\* the image entry answer() adds for one candidate: <<>> or <<entry>>
ImageEntry(cand) ==
    LET chunk == cand.chunk
        pdf   == dirs[cand.manual_id].pdf
        bytes == LocateImage(pdf, chunk.start_page, chunk.image_bbox)
    IN  IF chunk.has_image /\ chunk.start_page # 0 /\ bytes # <<>>
        THEN <<[title |-> chunk.header, page |-> chunk.start_page,
                image_bytes |-> bytes[1]]>>
        ELSE <<>>

RECURSIVE ImagesData(_)
ImagesData(cands) ==
    IF cands = <<>> THEN <<>>
    ELSE ImageEntry(Head(cands)) \o ImagesData(Tail(cands))

\* an answer without the `if not cands` guard: it generates from no context
answer_no_empty_guard(query, top_k, embedFails, loadFails, llmFails) ==
    IF list_manuals = <<>>
    THEN [raised |-> FALSE, keys |-> {"answer", "citations"}, answer |-> "no_manuals",
          citations |-> <<>>, images |-> <<>>, cands |-> <<>>, llm |-> 0, embeds |-> 0]
    ELSE LET g == gather_candidates(query, top_k, embedFails, loadFails)
         IN  IF g.raised \/ llmFails
             THEN [raised |-> TRUE, keys |-> {}, answer |-> "", citations |-> <<>>,
                   images |-> <<>>, cands |-> g.cands, llm |-> IF g.raised THEN 0 ELSE 1, embeds |-> g.embeds]
             ELSE [raised |-> FALSE, keys |-> {"answer", "citations", "images"},
                   answer |-> "generated",
                   citations |-> [i \in DOMAIN g.cands |-> Citation(g.cands[i])],
                   images |-> ImagesData(g.cands), cands |-> g.cands, llm |-> 1, embeds |-> g.embeds]

\* an answer that cites a candidate with an image only when its image was found
answer_cites_found_images(query, top_k, embedFails, loadFails, llmFails) ==
    IF list_manuals = <<>>
    THEN [raised |-> FALSE, keys |-> {"answer", "citations"}, answer |-> "no_manuals",
          citations |-> <<>>, images |-> <<>>, cands |-> <<>>, llm |-> 0, embeds |-> 0]
    ELSE LET g == gather_candidates(query, top_k, embedFails, loadFails)
             cited == SelectSeq(g.cands, LAMBDA c :
                          ~c.chunk.has_image \/ ImageEntry(c) # <<>>)
         IN  IF g.raised
             THEN [raised |-> TRUE, keys |-> {}, answer |-> "", citations |-> <<>>,
                   images |-> <<>>, cands |-> <<>>, llm |-> 0, embeds |-> g.embeds]
             ELSE IF g.cands = <<>>
             THEN [raised |-> FALSE, keys |-> {"answer", "citations"},
                   answer |-> "no_results", citations |-> <<>>, images |-> <<>>,
                   cands |-> <<>>, llm |-> 0, embeds |-> g.embeds]
             ELSE IF llmFails
             THEN [raised |-> TRUE, keys |-> {}, answer |-> "", citations |-> <<>>,
                   images |-> <<>>, cands |-> g.cands, llm |-> 1, embeds |-> g.embeds]
             ELSE [raised |-> FALSE, keys |-> {"answer", "citations", "images"},
                   answer |-> "generated",
                   citations |-> [i \in DOMAIN cited |-> Citation(cited[i])],
                   images |-> ImagesData(g.cands), cands |-> g.cands, llm |-> 1, embeds |-> g.embeds]

\* answer(query, top_k): the returned dictionary is [keys, answer, citations,
\* images]; llm counts the calls of the text-completion service
answer(query, top_k, embedFails, loadFails, llmFails) ==
    IF list_manuals = <<>>
    THEN [raised |-> FALSE, keys |-> {"answer", "citations"}, answer |-> "no_manuals",
          citations |-> <<>>, images |-> <<>>, cands |-> <<>>, llm |-> 0, embeds |-> 0]
    ELSE LET g == gather_candidates(query, top_k, embedFails, loadFails)
         IN  IF g.raised
             THEN [raised |-> TRUE, keys |-> {}, answer |-> "", citations |-> <<>>,
                   images |-> <<>>, cands |-> <<>>, llm |-> 0, embeds |-> g.embeds]
             ELSE IF g.cands = <<>>
             THEN [raised |-> FALSE, keys |-> {"answer", "citations"},
                   answer |-> "no_results", citations |-> <<>>, images |-> <<>>,
                   cands |-> <<>>, llm |-> 0, embeds |-> g.embeds]
             ELSE IF llmFails
             THEN [raised |-> TRUE, keys |-> {}, answer |-> "", citations |-> <<>>,
                   images |-> <<>>, cands |-> g.cands, llm |-> 1, embeds |-> g.embeds]
             ELSE [raised |-> FALSE, keys |-> {"answer", "citations", "images"},
                   answer |-> "generated",
                   citations |-> [i \in DOMAIN g.cands |-> Citation(g.cands[i])],
                   images |-> ImagesData(g.cands), cands |-> g.cands, llm |-> 1, embeds |-> g.embeds]

----------------------------------------------------------------------------
(* Uploaded documents and queries the model draws its inputs from *)

TextBlock(text, size, y0) ==
    [type |-> "text", y0 |-> y0, spans |-> <<[text |-> text, size |-> size]>>,
     in_table |-> FALSE]

\* two numbered sections, texts "aaa" and "b"
PdfA == << <<TextBlock(<<"1", ".", "x">>, 100, 1), TextBlock(<<"a", "a", "a">>, 100, 2),
            TextBlock(<<"2", ".", "x">>, 100, 3), TextBlock(<<"b">>, 100, 4)>> >>

\* two numbered sections on two pages, texts "aab" and "aaaa"
PdfB == << <<TextBlock(<<"1", ".", "x">>, 100, 1), TextBlock(<<"a", "a", "b">>, 100, 2)>>,
           <<TextBlock(<<"2", ".", "x">>, 100, 1),
             TextBlock(<<"a", "a", "a", "a">>, 100, 2)>> >>

\* body text without any header
PdfE == << <<TextBlock(<<"a", "b">>, 100, 1)>> >>

\* two illustrated sections opened on page 1: the image of the first lies on
\* page 1, the image of the second on page 2
PdfI == << <<TextBlock(<<"1", ".", "x">>, 100, 1), TextBlock(<<"a">>, 100, 2),
            [type |-> "image", y0 |-> 3,
             bbox |-> [x0 |-> 1000, y0 |-> 300, x1 |-> 5000, y1 |-> 4000],
             xref |-> 7, broken |-> FALSE],
            TextBlock(<<"2", ".", "x">>, 100, 4), TextBlock(<<"b">>, 100, 5)>>,
           <<[type |-> "image", y0 |-> 1,
              bbox |-> [x0 |-> 2000, y0 |-> 100, x1 |-> 9000, y1 |-> 8000],
              xref |-> 8, broken |-> FALSE]>> >>

SamplePdfs == {PdfA, PdfB, PdfE, PdfI}

Titles == {"manual"}

Queries == {<<"a">>, <<"b">>}

\* f"제목: {header}, 내용: {content}"
DocText(c) ==
    <<"t", "i", "t", "l", "e", ":", " ">> \o c.header
    \o <<",", " ", "t", "e", "x", "t", ":", " ">> \o c.content

----------------------------------------------------------------------------
(* Upload handler, app.py _upload_dialog_body *)

UploadIdle ==
    [pc |-> "idle", title |-> "", pdf |-> <<>>, mid |-> 0, chunks |-> <<>>,
     emb |-> <<>>, tmp_exists |-> FALSE, path_set |-> FALSE, ok |-> FALSE,
     meta_writes |-> 0]

NoCall == [op |-> "none"]

UploadFails == [up EXCEPT !.pc = "finally", !.ok = FALSE]

\* NamedTemporaryFile(delete=False), tmp.write(file.read()), tmp_path = tmp.name:
\* a failing write leaves the file it created, and tmp_path unset
UploadStart ==
    /\ up.pc = "idle"
    /\ nextId <= MaxManuals
    /\ \E title \in Titles, pdf \in SamplePdfs, fail \in {"none", "create", "write"} :
          up' = IF fail = "none"
                THEN [UploadIdle EXCEPT !.pc = "register", !.title = title, !.pdf = pdf,
                                        !.tmp_exists = TRUE, !.path_set = TRUE]
                ELSE [UploadIdle EXCEPT !.pc = "finally", !.tmp_exists = (fail = "write")]
    /\ last' = NoCall
    /\ UNCHANGED <<catalog, dirs, nextId, deleted, pdoc, ppos, pst, ctxIn, ctxOut, imgCall, quizRun, catRun, chatRun>>

\* meta = register_manual(title, tmp_path); mid = meta["id"]
UploadRegister ==
    /\ up.pc = "register"
    /\ \E fail \in {"none", "copy", "catalog"} :
          LET r == register_manual(up.title, up.pdf, fail)
          IN  /\ dirs' = r.dirs
              /\ catalog' = r.catalog
              /\ nextId' = nextId + 1
              /\ up' = IF r.raised THEN UploadFails
                       ELSE [up EXCEPT !.pc = "parse", !.mid = r.id]
              /\ last' = [op |-> "register", id |-> r.id, raised |-> r.raised,
                          before |-> catalog, dirs_before |-> dirs]
    /\ UNCHANGED <<deleted, pdoc, ppos, pst, ctxIn, ctxOut, imgCall, quizRun, catRun, chatRun>>

\* chunks = pdf_parser(manual_paths(mid)["pdf"]); save_chunks(mid, chunks)
UploadParse ==
    /\ up.pc = "parse"
    /\ \E fail \in BOOLEAN :
          LET d == dirs[up.mid]
              p == pdf_parser(d.pdf[1])
          IN  IF fail \/ d.pdf = <<>> \/ ~d.exists \/ p.raised
              THEN up' = UploadFails /\ dirs' = dirs
              ELSE /\ up' = [up EXCEPT !.pc = "embed", !.chunks = p.chunks]
                   /\ dirs' = [dirs EXCEPT ![up.mid] = save_chunks(d, p.chunks)]
    /\ last' = NoCall
    /\ UNCHANGED <<catalog, nextId, deleted, pdoc, ppos, pst, ctxIn, ctxOut, imgCall, quizRun, catRun, chatRun>>

\* an upload that writes the index where the embeddings should be written first
UploadEmbedIndexFirst ==
    /\ up.pc = "embed"
    /\ \E fail \in BOOLEAN :
          LET d   == dirs[up.mid]
              emb == embed_texts([i \in DOMAIN up.chunks |-> DocText(up.chunks[i])])
          IN  IF fail \/ ~d.exists
              THEN up' = UploadFails /\ dirs' = dirs
              ELSE /\ up' = [up EXCEPT !.pc = "index", !.emb = emb]
                   /\ dirs' = [dirs EXCEPT ![up.mid] =
                                  save_index(d, build_faiss_ip_index(emb))]
    /\ last' = NoCall
    /\ UNCHANGED <<catalog, nextId, deleted, pdoc, ppos, pst, ctxIn, ctxOut, imgCall, quizRun, catRun, chatRun>>

\* emb = embed_texts(docs); save_embeddings(mid, emb)
UploadEmbed ==
    /\ up.pc = "embed"
    /\ \E fail \in BOOLEAN :
          LET d   == dirs[up.mid]
              emb == embed_texts([i \in DOMAIN up.chunks |-> DocText(up.chunks[i])])
          IN  IF fail \/ ~d.exists
              THEN up' = UploadFails /\ dirs' = dirs
              ELSE /\ up' = [up EXCEPT !.pc = "index", !.emb = emb]
                   /\ dirs' = [dirs EXCEPT ![up.mid] = save_embeddings(d, emb)]
    /\ last' = NoCall
    /\ UNCHANGED <<catalog, nextId, deleted, pdoc, ppos, pst, ctxIn, ctxOut, imgCall, quizRun, catRun, chatRun>>

\* idx = build_faiss_ip_index(emb); save_index(idx, manual_paths(mid)["index"])
UploadIndex ==
    /\ up.pc = "index"
    /\ \E fail \in BOOLEAN :
          LET d == dirs[up.mid]
          IN  IF fail \/ ~d.exists
              THEN up' = UploadFails /\ dirs' = dirs
              ELSE /\ up' = [up EXCEPT !.pc = "meta"]
                   /\ dirs' = [dirs EXCEPT ![up.mid] =
                                  save_index(d, build_faiss_ip_index(up.emb))]
    /\ last' = NoCall
    /\ UNCHANGED <<catalog, nextId, deleted, pdoc, ppos, pst, ctxIn, ctxOut, imgCall, quizRun, catRun, chatRun>>

\* try: update_meta_counts(mid, d.page_count, len(chunks)) inside
\* `with fitz.open(...)`; except Exception: update_meta_counts(mid, None,
\* len(chunks)).  The second call is made when the PDF cannot be opened and
\* when the first call raises; if it raises too the upload fails.
UploadMeta ==
    /\ up.pc = "meta"
    /\ \E openFails \in BOOLEAN, fail1 \in {"none", "read", "write"},
          fail2 \in {"none", "read", "write"} :
          LET d      == dirs[up.mid]
              n      == Len(up.chunks)
              opened == ~openFails /\ d.pdf # <<>>
              first  == IF opened THEN UpdateMetaCall(d, <<Len(d.pdf[1])>>, n, fail1)
                        ELSE [d |-> d, raised |-> TRUE, writes |-> 0]
              second == IF first.raised THEN UpdateMetaCall(first.d, <<>>, n, fail2)
                        ELSE [first EXCEPT !.writes = 0]
          IN  /\ (opened /\ fail1 = "none") => fail2 = "none"
              /\ ~opened => fail1 = "none"
              /\ dirs' = [dirs EXCEPT ![up.mid] = second.d]
              /\ up' = IF second.raised
                       THEN [up EXCEPT !.pc = "finally", !.ok = FALSE,
                                       !.meta_writes = first.writes + second.writes]
                       ELSE [up EXCEPT !.pc = "finally", !.ok = TRUE,
                                       !.meta_writes = first.writes + second.writes]
    /\ last' = NoCall
    /\ UNCHANGED <<catalog, nextId, deleted, pdoc, ppos, pst, ctxIn, ctxOut, imgCall, quizRun, catRun, chatRun>>

\* finally: os.unlink(tmp_path), where an unset tmp_path raises and is swallowed;
\* the handler returns
UploadFinally ==
    /\ up.pc = "finally"
    /\ last' = [op |-> "upload", ok |-> up.ok, id |-> up.mid,
                tmp_left |-> up.tmp_exists /\ ~up.path_set,
                meta_writes |-> up.meta_writes]
    /\ up' = UploadIdle
    /\ UNCHANGED <<catalog, dirs, nextId, deleted, pdoc, ppos, pst, ctxIn, ctxOut, imgCall, quizRun, catRun, chatRun>>

----------------------------------------------------------------------------
(* Calls of the repository and of the orchestrator *)

\* the delete button of the manual dialog, or a direct call with any id; the
\* dialog's script runs one handler at a time
\* the listed manuals whose index and chunks files exist: a read error
\* (loadFails) can strike any of them
Loadable == {id \in CatalogIds(catalog) : dirs[id].index # <<>> /\ dirs[id].chunks # <<>>}

Delete ==
    /\ up.pc = "idle"
    /\ \E id \in AllIds, fail \in {"none", "load", "save", "rmtree"} :
          \E left \in IF fail = "rmtree" /\ dirs[id].exists
                      THEN RmtreeLeftovers(dirs[id]) ELSE {NoDir} :
             LET r == delete_manual(id, fail, left)
             IN  /\ catalog' = r.catalog
                 /\ dirs' = r.dirs
                 /\ deleted' = IF r.result /\ id \in CatalogIds(catalog)
                               THEN deleted \cup {id} ELSE deleted
                 /\ last' = [op |-> "delete", id |-> id, fail |-> fail,
                             result |-> r.result, raised |-> r.raised,
                             listed |-> id \in CatalogIds(catalog),
                             had_dir |-> dirs[id].exists,
                             before |-> catalog, dirs_before |-> dirs]
    /\ UNCHANGED <<nextId, up, pdoc, ppos, pst, ctxIn, ctxOut, imgCall, quizRun, catRun, chatRun>>

\* A query leaves the repository as it is, so a query that follows a query
\* reaches no state that a single query does not reach: queries are taken
\* from the states some other call has left.
AfterQuery == last.op \in {"retrieve", "answer"}

Retrieve ==
    /\ ~AfterQuery
    /\ \E query \in Queries, top_k \in 1..MaxK, embedFails \in BOOLEAN,
          loadFails \in SUBSET Loadable :
          /\ embedFails => loadFails = {}
          /\ LET g == gather_candidates(query, top_k, embedFails, loadFails)
             IN  last' = [op |-> "retrieve", query |-> query, top_k |-> top_k,
                          embedFails |-> embedFails, loadFails |-> loadFails,
                          raised |-> g.raised, cands |-> g.cands,
                          embeds |-> g.embeds]
    /\ UNCHANGED <<catalog, dirs, nextId, up, deleted,
                   pdoc, ppos, pst, ctxIn, ctxOut, imgCall, quizRun, catRun, chatRun>>

Answer ==
    /\ ~AfterQuery
    /\ \E query \in Queries, top_k \in 1..MaxK, embedFails \in BOOLEAN,
          loadFails \in SUBSET Loadable, llmFails \in BOOLEAN :
          /\ embedFails => loadFails = {} /\ ~llmFails
          /\ LET a == answer(query, top_k, embedFails, loadFails, llmFails)
             IN  last' = [op |-> "answer", query |-> query, top_k |-> top_k,
                          embedFails |-> embedFails, loadFails |-> loadFails,
                          llmFails |-> llmFails, raised |-> a.raised, out |-> a]
    /\ UNCHANGED <<catalog, dirs, nextId, up, deleted,
                   pdoc, ppos, pst, ctxIn, ctxOut, imgCall, quizRun, catRun, chatRun>>

Init ==
    /\ catalog = <<>>
    /\ dirs = [id \in AllIds |-> NoDir]
    /\ nextId = 1
    /\ up = UploadIdle
    /\ last = NoCall
    /\ deleted = {}
    /\ pdoc = <<>>
    /\ ppos = 0
    /\ pst = ParserInit
    /\ ctxIn = [cands |-> <<>>, max_chars |-> 0, called |-> FALSE]
    /\ ctxOut = <<>>
    /\ imgCall = ImgIdle
    /\ quizRun = QuizIdle
    /\ catRun = CatIdle
    /\ chatRun = ChatIdle

Next ==
    \/ UploadStart
    \/ UploadRegister
    \/ UploadParse
    \/ UploadEmbed
    \/ UploadIndex
    \/ UploadMeta
    \/ UploadFinally
    \/ Delete
    \/ Retrieve
    \/ Answer

Spec == Init /\ [][Next]_vars

----------------------------------------------------------------------------
(* The segmenter run element by element: pdf_parser's loop as a state      *)
(* machine over the same ParserStep.                                       *)

\* the text blocks, tables and images the parsed documents are made of
HeaderOne == TextBlock(<<"1", ".", "x">>, 100, 1)
HeaderOneB == TextBlock(<<"2", ".", "z">>, 100, 1)
\* numbered as level 2 and printed large
HeaderTwo == TextBlock(<<"1", "-", "1", ".", "y">>, 160, 2)
BodyText == TextBlock(<<"a", "b">>, 100, 2)
BlankText == TextBlock(<<" ">>, 100, 1)
\* unnumbered blocks at 1.6, 1.3, 1.5 and 1.2 times the body size
LargeText == TextBlock(<<"T">>, 160, 1)
MidText == TextBlock(<<"M">>, 130, 2)
Edge15 == TextBlock(<<"q">>, 150, 2)
Edge12 == TextBlock(<<"p">>, 120, 2)
TableObj == [type |-> "table", y0 |-> 2, data |-> <<"|", "t", "|">>, empty |-> FALSE]
ImageObj == [type |-> "image", y0 |-> 3,
             bbox |-> [x0 |-> 1000, y0 |-> 300, x1 |-> 5000, y1 |-> 4000],
             xref |-> 7, broken |-> FALSE]

SampleObjects ==
    {HeaderOne, HeaderOneB, HeaderTwo, BodyText, BlankText, LargeText, MidText,
     Edge15, Edge12, TableObj, ImageObj}

SeqsUpTo(S, n) == UNION {[1..k -> S] : k \in 0..n}

\* documents of one or two pages holding at most MaxItems objects
ParseDocs ==
    UNION {{<<SubSeq(items, 1, k), SubSeq(items, k + 1, Len(items))>> :
               k \in 0..Len(items)} : items \in SeqsUpTo(SampleObjects, MaxItems)}

\* the elements of the document in processing order, each with its page number
RECURSIVE FlatElements(_, _)
FlatElements(doc, page_num) ==
    IF page_num > Len(doc) THEN <<>>
    ELSE LET elems == ExtractPageElements(doc[page_num])
         IN  [i \in DOMAIN elems |-> [elem |-> elems[i], page_num |-> page_num]]
             \o FlatElements(doc, page_num + 1)

\* ppos: number of elements processed; -1 once the parser has returned
ParseElem ==
    /\ ppos >= 0
    /\ ~pst.raised
    /\ ppos < Len(FlatElements(pdoc, 1))
    /\ LET e == FlatElements(pdoc, 1)[ppos + 1]
       IN  pst' = ParserStep(pst, e.elem, e.page_num)
    /\ ppos' = ppos + 1
    /\ UNCHANGED <<catalog, dirs, nextId, up, last, deleted, pdoc, ctxIn, ctxOut, imgCall, quizRun, catRun, chatRun>>

\* flush last, assign ids, return
ParseReturn ==
    /\ ppos >= 0
    /\ ~pst.raised
    /\ ppos = Len(FlatElements(pdoc, 1))
    /\ pst' = [pst EXCEPT !.final = ParserFinish(pst), !.cur = <<>>]
    /\ ppos' = -1
    /\ UNCHANGED <<catalog, dirs, nextId, up, last, deleted, pdoc, ctxIn, ctxOut, imgCall, quizRun, catRun, chatRun>>

InitParse ==
    /\ catalog = <<>>
    /\ dirs = [id \in AllIds |-> NoDir]
    /\ nextId = 1
    /\ up = UploadIdle
    /\ last = NoCall
    /\ deleted = {}
    /\ pdoc \in ParseDocs
    /\ ppos = 0
    /\ pst = ParserInit
    /\ ctxIn = [cands |-> <<>>, max_chars |-> 0, called |-> FALSE]
    /\ ctxOut = <<>>
    /\ imgCall = ImgIdle
    /\ quizRun = QuizIdle
    /\ catRun = CatIdle
    /\ chatRun = ChatIdle

NextParse == ParseElem \/ ParseReturn

SpecParse == InitParse /\ [][NextParse]_vars

----------------------------------------------------------------------------
(* Context assembly on its own: _build_context applied to candidates whose *)
(* contents have the lengths around the limits it computes.                *)

ContentLens == {0, 500, 800, 900, 2100, 4100}
Budgets == {1000, 4000}
Chars == <<"0", "1", "2", "3", "4", "5", "6", "7", "8", "9">>

\* a text of the given length whose characters depend on their position
ContentOf(len) == [i \in 1..len |-> Chars[(i % 10) + 1]]

CtxCandidate(len) ==
    [manual_id |-> 1, score |-> 0,
     chunk |-> [header |-> <<"h">>, content |-> ContentOf(len), start_page |-> 1,
                type |-> "section", has_image |-> FALSE, image_bbox |-> <<>>, id |-> 1]]

BuildContextCall ==
    /\ ~ctxIn.called
    /\ ctxOut' = build_context(ctxIn.cands, ctxIn.max_chars)
    /\ ctxIn' = [ctxIn EXCEPT !.called = TRUE]
    /\ UNCHANGED <<catalog, dirs, nextId, up, last, deleted, pdoc, ppos, pst, imgCall, quizRun, catRun, chatRun>>

InitCtx ==
    /\ catalog = <<>>
    /\ dirs = [id \in AllIds |-> NoDir]
    /\ nextId = 1
    /\ up = UploadIdle
    /\ last = NoCall
    /\ deleted = {}
    /\ pdoc = <<>>
    /\ ppos = 0
    /\ pst = ParserInit
    /\ \E lens \in SeqsUpTo(ContentLens, MaxCands), max_chars \in Budgets :
          ctxIn = [cands |-> [i \in DOMAIN lens |-> CtxCandidate(lens[i])],
                   max_chars |-> max_chars, called |-> FALSE]
    /\ ctxOut = <<>>
    /\ imgCall = ImgIdle
    /\ quizRun = QuizIdle
    /\ catRun = CatIdle
    /\ chatRun = ChatIdle

NextCtx == BuildContextCall

SpecCtx == InitCtx /\ [][NextCtx]_vars

----------------------------------------------------------------------------
(* The image locator on its own: one lookup on a one-page PDF whose images  *)
(* lie at, around and beyond the tolerance from the target box.             *)

TargetBox == [x0 |-> 1000, y0 |-> 300, x1 |-> 5000, y1 |-> 4000]

Edges == {"x0", "y0", "x1", "y1"}

\* the target box with one edge moved by d
Shifted(edge, d) ==
    [x0 |-> TargetBox.x0 + (IF edge = "x0" THEN d ELSE 0),
     y0 |-> TargetBox.y0 + (IF edge = "y0" THEN d ELSE 0),
     x1 |-> TargetBox.x1 + (IF edge = "x1" THEN d ELSE 0),
     y1 |-> TargetBox.y1 + (IF edge = "y1" THEN d ELSE 0)]

\* the target box with every edge moved by d
ShiftedAll(d) ==
    [x0 |-> TargetBox.x0 + d, y0 |-> TargetBox.y0 + d,
     x1 |-> TargetBox.x1 + d, y1 |-> TargetBox.y1 + d]

\* differences of 5.00 and 5.01 on one edge, of 5.00 on all, and far away
SampleBoxes ==
    {TargetBox, ShiftedAll(500), ShiftedAll(10000), Shifted("x0", -500), Shifted("x0", -501)}
    \cup {Shifted(e, 500) : e \in Edges} \cup {Shifted(e, 501) : e \in Edges}

\* pages of at most MaxImages images; the i-th image has xref 10 + i
ImagePages ==
    {[i \in DOMAIN boxes |->
         [type |-> "image", y0 |-> 3, bbox |-> boxes[i].box, xref |-> 10 + i,
          broken |-> boxes[i].broken]] :
     boxes \in SeqsUpTo([box : SampleBoxes, broken : BOOLEAN], MaxImages)}

\* the lookup answer() makes for a chunk with has_image
Lookup ==
    /\ imgCall.op = "ready"
    /\ imgCall' = [imgCall EXCEPT
                      !.op = "done",
                      !.out = LocateImage(imgCall.pdf, imgCall.page_num, imgCall.bbox)]
    /\ UNCHANGED <<catalog, dirs, nextId, up, last, deleted, pdoc, ppos, pst,
                   ctxIn, ctxOut, quizRun, catRun, chatRun>>

InitImg ==
    /\ catalog = <<>>
    /\ dirs = [id \in AllIds |-> NoDir]
    /\ nextId = 1
    /\ up = UploadIdle
    /\ last = NoCall
    /\ deleted = {}
    /\ pdoc = <<>>
    /\ ppos = 0
    /\ pst = ParserInit
    /\ ctxIn = [cands |-> <<>>, max_chars |-> 0, called |-> FALSE]
    /\ ctxOut = <<>>
    /\ quizRun = QuizIdle
    /\ catRun = CatIdle
    /\ chatRun = ChatIdle
    /\ \E page \in ImagePages, page_num \in 0..2, bbox \in {<<>>, <<TargetBox>>},
          missing \in BOOLEAN :
          /\ missing => (page = <<>> /\ page_num = 1)
          /\ imgCall = [op |-> "ready",
                        pdf |-> IF missing THEN <<>> ELSE << <<page>> >>,
                        page_num |-> page_num, bbox |-> bbox, out |-> <<>>]

NextImg == Lookup

SpecImg == InitImg /\ [][NextImg]_vars

----------------------------------------------------------------------------
(* Properties of retrieval *)

\* the candidates of the last retrieve, or of the retrieve inside the last answer
LastIsQuery == last.op \in {"retrieve", "answer"}
LastCands == IF last.op = "retrieve" THEN last.cands
             ELSE IF last.op = "answer" THEN last.out.cands ELSE <<>>

\* The pool of a query, stated without the loop that gathers it: for every
\* listed manual that loads, the valid rows of its search result.
PoolOf(query, top_k, loadFails) ==
    UNION {
        LET d == dirs[m]
        IN  IF m \in loadFails \/ d.index = <<>> \/ d.chunks = <<>> THEN {}
            ELSE LET hits == faiss_search(d.index[1], embed_query(query), top_k)
                 IN  {[manual_id |-> m, score |-> hits[p].score,
                       chunk |-> d.chunks[1][hits[p].row + 1]] :
                        p \in {x \in DOMAIN hits :
                                 hits[x].row >= 0 /\ hits[x].row < Len(d.chunks[1])}}
        : m \in CatalogIds(catalog)}

LastPool == PoolOf(last.query, last.top_k, last.loadFails)

Range(s) == {s[i] : i \in DOMAIN s}

\* C1: retrieve with top_k = k returns the min(k, |pool|) highest-scoring
\* candidates of the pool of all manuals' search results, in descending score
\* order: no candidate left out scores strictly higher than one returned.
C1_GlobalTopK ==
    (last.op = "retrieve" /\ ~last.raised) =>
        LET r == last.cands
        IN  /\ Len(r) = Min(last.top_k, Cardinality(LastPool))
            /\ Range(r) \subseteq LastPool
            /\ \A i, j \in DOMAIN r : i < j => r[i] # r[j] /\ r[i].score >= r[j].score
            /\ \A c \in LastPool \ Range(r) : \A i \in DOMAIN r : c.score <= r[i].score

\* the example of the specification: A scores [3, 0], B scores [2, 4], k = 2
\* yields [4, 3], one candidate from each manual
C1_Witness ==
    /\ last.op = "retrieve" /\ ~last.raised /\ last.top_k = 2
    /\ Cardinality(LastPool) = 4
    /\ Len(last.cands) = 2
    /\ last.cands[1].score = 4 /\ last.cands[2].score = 3
    /\ last.cands[1].manual_id # last.cands[2].manual_id

\* the manuals that a retrieve skips
Skipped(loadFails) ==
    {m \in CatalogIds(catalog) :
        m \in loadFails \/ dirs[m].index = <<>> \/ dirs[m].chunks = <<>>}

\* C2: a manual whose index or chunks fail to load is skipped without
\* raising: the retrieve completes and returns exactly what it returns over
\* the catalog without the failing manuals.
C2_FailingManualsSkipped ==
    (last.op = "retrieve" /\ ~last.embedFails) =>
        LET rest == SelectSeq(catalog, LAMBDA m : m.id \notin Skipped(last.loadFails))
            pool == CandidatePool(rest, embed_query(last.query), last.top_k, {})
        IN  /\ ~last.raised
            /\ last.cands = NLargest(last.top_k, pool)
            /\ \A i \in DOMAIN last.cands :
                  last.cands[i].manual_id \notin Skipped(last.loadFails)

\* one manual fails to load and the candidates of the other are returned
C2_Witness ==
    /\ last.op = "retrieve" /\ ~last.raised
    /\ last.loadFails # {}
    /\ last.cands # <<>>

Persisted(m) == dirs[m].chunks # <<>> /\ dirs[m].emb # <<>> /\ dirs[m].index # <<>>

\* C3: in every state during or after an upload, aborted or not, a retrieve
\* returns candidates of a manual only if its chunks, embeddings and index
\* are all persisted, and a listed manual with missing artifacts causes no error.
C3_OnlyPersistedManuals ==
    LastIsQuery =>
        /\ \A i \in DOMAIN LastCands : Persisted(LastCands[i].manual_id)
        /\ (last.op = "retrieve" /\ ~last.embedFails) => ~last.raised

C3_Witness ==
    /\ last.op = "retrieve" /\ ~last.raised
    /\ up.pc = "index"
    /\ up.mid \in CatalogIds(catalog) /\ ~Persisted(up.mid)
    /\ dirs[up.mid].chunks # <<>> /\ dirs[up.mid].chunks[1] # <<>>
    /\ last.cands # <<>>

\* C4: with an empty candidate pool retrieve returns the empty list, and
\* answer returns a no-results outcome with no citation, without raising and
\* without calling the text-completion service.
C4_EmptyPool ==
    (LastIsQuery /\ ~last.embedFails /\ LastPool = {}) =>
        /\ ~last.raised
        /\ LastCands = <<>>
        /\ last.op = "answer" =>
              /\ last.out.answer \in {"no_manuals", "no_results"}
              /\ last.out.citations = <<>>
              /\ last.out.llm = 0

C4_Witness ==
    /\ last.op = "answer" /\ ~last.embedFails
    /\ catalog # <<>>
    /\ LastPool = {}
    /\ last.out.answer = "no_results"

----------------------------------------------------------------------------
(* Properties of context assembly *)

Prefix(s, n) == SubSeq(s, 1, Min(n, Len(s)))

\* C5: over n >= 1 candidates with budget max_chars every part holds the
\* first max(800, max_chars div n) characters of its candidate's content,
\* the whole content when it is shorter.
C5_SnippetLimit ==
    (ctxIn.called /\ Len(ctxIn.cands) >= 1) =>
        LET n == Len(ctxIn.cands)
            limit == Max(800, ctxIn.max_chars \div n)
        IN  /\ Len(ctxOut) = n
            /\ \A i \in 1..n :
                  ctxOut[i].snippet = Prefix(ctxIn.cands[i].chunk.content, limit)

RECURSIVE SumLen(_)
SumLen(parts) == IF parts = <<>> THEN 0 ELSE Len(Head(parts).snippet) + SumLen(Tail(parts))

\* max_chars div n < 800, a candidate cut to 800, and the total over max_chars
C5_Witness ==
    /\ ctxIn.called /\ Len(ctxIn.cands) = 2
    /\ ctxIn.max_chars \div 2 < 800
    /\ Len(ctxIn.cands[1].chunk.content) > 800 /\ Len(ctxOut[1].snippet) = 800
    /\ SumLen(ctxOut) > ctxIn.max_chars

----------------------------------------------------------------------------
(* Properties of the repository *)

\* C6: delete of an id that is not in the catalog and has no directory
\* returns false and does not raise, and changes neither the catalog nor any
\* manual's artifacts.
C6_DeleteMissingReturnsFalse ==
    (last.op = "delete" /\ ~last.listed /\ ~last.had_dir) =>
        /\ last.result = FALSE
        /\ ~last.raised
        /\ catalog = last.before
        /\ dirs = last.dirs_before

\* C7: after a successful delete of a listed id the catalog is the one before
\* without that entry, the others unchanged and in order, and no later
\* retrieve returns a candidate of a deleted manual.
C7_DeleteRemovesManual ==
    /\ (last.op = "delete" /\ last.listed /\ last.result) =>
          /\ last.id \notin CatalogIds(catalog)
          /\ \E p \in DOMAIN last.before :
                /\ last.before[p].id = last.id
                /\ catalog = RemoveAt(last.before, p)
    /\ LastIsQuery => \A i \in DOMAIN LastCands : LastCands[i].manual_id \notin deleted

C7_Witness ==
    /\ last.op = "delete" /\ last.listed /\ last.result
    /\ Len(last.before) = 2
    /\ Persisted(last.before[2].id)
    /\ last.id = last.before[1].id

\* C8: delete never raises; a failing step makes it return false; the catalog
\* entry goes before the directory, so a failing directory removal leaves the
\* manual out of the catalog while a failing catalog access leaves both.
C8_DeleteNeverRaises ==
    last.op = "delete" =>
        /\ ~last.raised
        /\ last.fail \in {"load", "save"} =>
              /\ last.result = FALSE
              /\ catalog = last.before
              /\ dirs = last.dirs_before
        /\ (last.fail = "rmtree" /\ last.had_dir) =>
              /\ last.result = FALSE
              /\ last.id \notin CatalogIds(catalog)

C8_Witness ==
    /\ last.op = "delete" /\ last.fail = "rmtree" /\ last.listed
    /\ last.result = FALSE
    /\ last.id \notin CatalogIds(catalog)
    /\ dirs[last.id].exists

\* C9: a successful register appends exactly one entry {id, title} with a
\* fresh id, after the source file was copied and the initial metadata
\* written; the earlier entries keep their place and no other manual's
\* directory changes.
C9_RegisterAppends ==
    (last.op = "register" /\ ~last.raised) =>
        /\ catalog = Append(last.before, [id |-> last.id, title |-> up.title])
        /\ last.id \notin CatalogIds(last.before)
        /\ ~last.dirs_before[last.id].exists
        /\ dirs[last.id].pdf = <<up.pdf>>
        /\ dirs[last.id].meta # <<>>
        /\ dirs[last.id].meta[1].id = last.id /\ dirs[last.id].meta[1].title = up.title
        /\ \A m \in AllIds \ {last.id} : dirs[m] = last.dirs_before[m]

C9_Witness ==
    /\ last.op = "register" /\ ~last.raised
    /\ Len(last.before) = 1
    /\ Persisted(last.before[1].id)

----------------------------------------------------------------------------
(* Properties of the segmenter *)

HasText(doc) ==
    \E p \in DOMAIN doc : \E i \in DOMAIN doc[p] :
        /\ doc[p][i].type = "text"
        /\ ~doc[p][i].in_table
        /\ Strip(Join([k \in DOMAIN doc[p][i].spans |-> doc[p][i].spans[k].text],
                      <<" ">>)) # <<>>

RECURSIVE TotalContent(_)
TotalContent(chunks) ==
    IF chunks = <<>> THEN 0 ELSE Len(Head(chunks).content) + TotalContent(Tail(chunks))

\* C10: for every PDF with at least one non-empty text block the returned
\* chunks have a total content length greater than zero.
C10_NonEmptyManual ==
    (ppos = -1 /\ HasText(pdoc)) => TotalContent(pst.final) > 0

----------------------------------------------------------------------------
(* Properties of the segmenter's headers *)

\* the elements of the parsed document in processing order
Elems == FlatElements(pdoc, 1)

\* element i is a text block with text left after stripping
IsTextAt(i) == Elems[i].elem.type = "text" /\ BlockText(Elems[i].elem) # <<>>

TextAt(i) == BlockText(Elems[i].elem)

ClassAt(i) == ContentType(Elems[i].elem, TextAt(i))

IsHeaderAt(i) == IsTextAt(i) /\ ClassAt(i) # "paragraph"

\* positions of the level-1 headers met before element i
LevelOnesBefore(i) == {j \in 1..(i - 1) : IsTextAt(j) /\ ClassAt(j) = "header_level_1"}

RecentLevelOne(i) == CHOOSE j \in LevelOnesBefore(i) : \A k \in LevelOnesBefore(i) : k <= j

\* C11: the chunk opened by a level-2 header is headed "<most recent level-1
\* header> - <level-2 text>" when a level-1 header occurred earlier in the
\* document, its raw text otherwise; a level-1 header opens a chunk headed by
\* its raw text.
C11_HeaderHierarchy ==
    (ppos >= 1 /\ IsHeaderAt(ppos)) =>
        /\ pst.cur # <<>>
        /\ pst.cur[1].header =
              IF ClassAt(ppos) = "header_level_1" \/ LevelOnesBefore(ppos) = {}
              THEN TextAt(ppos)
              ELSE TextAt(RecentLevelOne(ppos)) \o <<" ", "-", " ">> \o TextAt(ppos)

\* a level-2 header on page 2, after another level-2 header, takes the
\* level-1 header of page 1
C11_Witness ==
    /\ ppos = 3
    /\ Elems[1].page_num = 1 /\ Elems[3].page_num = 2
    /\ IsTextAt(1) /\ IsTextAt(2) /\ IsTextAt(3)
    /\ ClassAt(1) = "header_level_1" /\ ClassAt(2) = "header_level_2"
    /\ ClassAt(3) = "header_level_2"
    /\ pst.cur # <<>>
    /\ pst.cur[1].header = <<"1", ".", "x", " ", "-", " ", "1", "-", "1", ".", "y">>

\* text begins with digits and a dot: "3."
BeginsN(text) ==
    \E n \in 1..Len(text) :
        /\ \A i \in 1..n : text[i] \in Digits
        /\ n + 1 <= Len(text) /\ text[n + 1] = "."

\* text begins with digits, a dash, digits and a dot: "3-1."
BeginsNM(text) ==
    \E n \in 1..Len(text), m \in 1..Len(text) :
        /\ \A i \in 1..n : text[i] \in Digits
        /\ n + 1 <= Len(text) /\ text[n + 1] = "-"
        /\ n + 1 + m <= Len(text)
        /\ \A i \in (n + 2)..(n + 1 + m) : text[i] \in Digits
        /\ n + m + 2 <= Len(text) /\ text[n + m + 2] = "."

\* the class the numbering and the font ratio give a block (sizes in tenths)
ExpectedClass(text, size, base) ==
    IF BeginsN(text) THEN "header_level_1"
    ELSE IF BeginsNM(text) THEN "header_level_2"
    ELSE IF 10 * size > 15 * base THEN "header_level_1"
    ELSE IF 10 * size > 12 * base THEN "header_level_2"
    ELSE "paragraph"

ExpectedClassAt(i) ==
    ExpectedClass(TextAt(i), Elems[i].elem.spans[1].size, Elems[i].elem.base_font)

\* C12: a block numbered "N." is handled as a level-1 header and one numbered
\* "N-M." as a level-2 header whatever its font size; an unnumbered block is
\* level 1 when its size is strictly above 1.5 times the page baseline,
\* level 2 when strictly above 1.2 times, and a paragraph otherwise.  Seen on
\* what the segmenter does with the block: a level-1 header opens a chunk
\* under its own text and becomes the main header, a level-2 header opens a
\* chunk under the main header without replacing it, a paragraph opens none.
C12_Classification ==
    (ppos >= 1 /\ IsTextAt(ppos)) =>
        LET text == TextAt(ppos)
            cls  == ExpectedClassAt(ppos)
        IN  /\ cls = "header_level_1" =>
                  /\ pst.cur # <<>> /\ pst.cur[1].content = <<>>
                  /\ pst.cur[1].header = text /\ pst.last = text
            /\ cls = "header_level_2" =>
                  /\ pst.cur # <<>> /\ pst.cur[1].content = <<>>
                  /\ pst.cur[1].header =
                        IF pst.last # <<>> THEN pst.last \o <<" ", "-", " ">> \o text
                        ELSE text
            /\ cls = "paragraph" =>
                  \/ pst.cur = <<>>
                  \/ /\ pst.cur[1].content # <<>>
                     /\ pst.cur[1].content[Len(pst.cur[1].content)] = text

\* on a page whose baseline is 10.0, a block at 12.0 was taken as a paragraph
\* and the block at 15.0 after it as a level-2 header
C12_Witness ==
    /\ ppos = 3
    /\ IsTextAt(2) /\ IsTextAt(3)
    /\ Elems[2].elem.base_font = 100 /\ Elems[2].elem.spans[1].size = 120
    /\ Elems[3].elem.base_font = 100 /\ Elems[3].elem.spans[1].size = 150
    /\ ExpectedClassAt(2) = "paragraph" /\ ExpectedClassAt(3) = "header_level_2"
    /\ pst.cur # <<>> /\ pst.cur[1].header = <<"q">>

----------------------------------------------------------------------------
(* Properties of the segmenter's chunks *)

\* the boxes of the images on a page of the parsed document
ImageBoxesOn(page_num) ==
    IF page_num \in DOMAIN pdoc
    THEN {pdoc[page_num][i].bbox :
             i \in {j \in DOMAIN pdoc[page_num] : pdoc[page_num][j].type = "image"}}
    ELSE {}

\* C13: every emitted chunk with has_image = true and an image_bbox records
\* the box of an image that lies on the chunk's start_page.
C13_ImageOnStartPage ==
    ppos = -1 =>
        \A i \in DOMAIN pst.final :
            (pst.final[i].has_image /\ pst.final[i].image_bbox # <<>>) =>
                pst.final[i].image_bbox[1] \in ImageBoxesOn(pst.final[i].start_page)

\* the step being taken handles the table or image at position ppos + 1
AttachNow ==
    /\ ppos >= 0 /\ ppos < Len(Elems)
    /\ Elems[ppos + 1].elem.type \in {"table", "image"}
    /\ ppos' = ppos + 1

\* what a table or image adds to the content
AttachedData(e) ==
    IF e.type = "image" THEN <<"[", "I", "M", "A", "G", "E", "]">> ELSE e.data

InitialHeader ==
    <<"I", "n", "i", "t", "i", "a", "l", " ", "C", "o", "n", "t", "e", "n", "t">>

\* the chunks finalized so far and the open accumulator
AllChunks == pst.final \o pst.cur

\* C14: a table or image never finalizes or replaces an open accumulator: it
\* is appended to it and header and start_page stay; with none open and no
\* chunk yet, an "Initial Content" accumulator is opened to hold it; that
\* accumulator is opened at most once per document.
C14_AttachKeepsAccumulator ==
    /\ [][AttachNow =>
            LET e == Elems[ppos + 1]
            IN  /\ pst'.final = pst.final
                /\ pst'.cur # <<>>
                /\ pst.cur # <<>> =>
                      /\ pst'.cur[1].header = pst.cur[1].header
                      /\ pst'.cur[1].start_page = pst.cur[1].start_page
                      /\ pst'.cur[1].content =
                            Append(pst.cur[1].content, AttachedData(e.elem))
                /\ (pst.cur = <<>> /\ pst.final = <<>>) =>
                      /\ pst'.cur[1].header = InitialHeader
                      /\ pst'.cur[1].start_page = e.page_num
                      /\ pst'.cur[1].content = <<AttachedData(e.elem)>>]_vars
    /\ [](Cardinality({i \in DOMAIN AllChunks : AllChunks[i].header = InitialHeader}) <= 1)

\* a table opened "Initial Content" and the image after it was appended to it
C14_Witness ==
    /\ ppos = 2
    /\ Elems[1].elem.type = "table" /\ Elems[2].elem.type = "image"
    /\ pst.final = <<>> /\ pst.cur # <<>>
    /\ pst.cur[1].header = InitialHeader
    /\ Len(pst.cur[1].content) = 2
    /\ pst.cur[1].has_image

\* the step being taken handles the header at position ppos + 1
HeaderNow ==
    /\ ppos >= 0 /\ ppos < Len(Elems)
    /\ ppos' = ppos + 1
    /\ IsHeaderAt(ppos + 1)

\* the step being taken handles an element that is not a header
OtherNow ==
    /\ ppos >= 0 /\ ppos < Len(Elems)
    /\ ppos' = ppos + 1
    /\ ~IsHeaderAt(ppos + 1)

\* the step being taken is the end of the document
ReturnNow == ppos >= 0 /\ ppos' = -1

\* what flushing the accumulators in cur must emit: the accumulator with its
\* pieces concatenated and stripped, or nothing when that text is empty
Emitted(cur) ==
    IF cur = <<>> THEN <<>>
    ELSE LET text == Strip(Join(cur[1].content, <<>>))
         IN  IF text # <<>> THEN <<[cur[1] EXCEPT !.content = text]>> ELSE <<>>

\* the returned chunks without the ids given on return
WithoutIds(chunks) ==
    [i \in DOMAIN chunks |->
        [header |-> chunks[i].header, content |-> chunks[i].content,
         start_page |-> chunks[i].start_page, type |-> chunks[i].type,
         has_image |-> chunks[i].has_image, image_bbox |-> chunks[i].image_bbox]]

\* C15: every accumulator is flushed exactly once, when the next header
\* arrives or at the end of the document; it is emitted if and only if its
\* merged content is non-empty, so no emitted chunk is empty and no content
\* is lost; emitted chunks keep the order of their headers.
C15_FlushOnce ==
    /\ [][(HeaderNow => (/\ pst'.final = pst.final \o Emitted(pst.cur)
                         /\ pst'.cur # <<>>
                         /\ pst'.cur[1].content = <<>>))
          /\ (OtherNow => pst'.final = pst.final)
          /\ (ReturnNow => (/\ WithoutIds(pst'.final) = pst.final \o Emitted(pst.cur)
                            /\ pst'.cur = <<>>))]_vars
    /\ [](\A i \in DOMAIN pst.final : pst.final[i].content # <<>>)

\* the parser has returned: of two sections, the one with text was emitted
\* and the one left empty was dropped
C15_Witness ==
    /\ ppos = -1
    /\ Cardinality({i \in DOMAIN Elems : IsHeaderAt(i)}) = 2
    /\ Len(pst.final) = 1
    /\ pst.final[1].content = <<"a", "b">>

----------------------------------------------------------------------------
(* Properties of the image locator *)

\* the images the looked-up page enumerates; none for a missing file or a
\* page number outside 1..page_count
LookupImages ==
    IF imgCall.pdf = <<>> THEN <<>>
    ELSE IF imgCall.page_num \notin DOMAIN imgCall.pdf[1] THEN <<>>
    ELSE SelectSeq(imgCall.pdf[1][imgCall.page_num], LAMBDA o : o.type = "image")

\* the largest difference between the box and the target over the four edges
MaxEdgeDiff(box, target) ==
    LET diffs == {box.x0 - target.x0, target.x0 - box.x0,
                  box.y0 - target.y0, target.y0 - box.y0,
                  box.x1 - target.x1, target.x1 - box.x1,
                  box.y1 - target.y1, target.y1 - box.y1}
    IN  CHOOSE d \in diffs : \A e \in diffs : e <= d

\* positions of the images within 5.00 of the target on all four edges
Matching ==
    {i \in DOMAIN LookupImages :
        MaxEdgeDiff(LookupImages[i].bbox, imgCall.bbox[1]) <= 500}

FirstMatching == CHOOSE i \in Matching : \A j \in Matching : i <= j

ByBBoxDone == imgCall.op = "done" /\ imgCall.bbox # <<>>

C17_InclusiveTolerance ==
    (ByBBoxDone /\ Len(LookupImages) = 1 /\ ~LookupImages[1].broken) =>
        LET d == MaxEdgeDiff(LookupImages[1].bbox, imgCall.bbox[1])
        IN  /\ d <= 500 => imgCall.out = <<LookupImages[1].xref>>
            /\ d >= 501 => imgCall.out = <<>>

\* the only image differs by exactly 5.00 on its right edge and is returned
C17_Witness ==
    /\ ByBBoxDone
    /\ Len(LookupImages) = 1
    /\ LookupImages[1].bbox.x1 - imgCall.bbox[1].x1 = 500
    /\ LookupImages[1].bbox.x0 = imgCall.bbox[1].x0
    /\ imgCall.out = <<LookupImages[1].xref>>

\* C18: a lookup without a bbox returns the first image in the page's
\* enumeration order, and "not found" when the page has no image or the page
\* number is outside 1..page_count, also when the extraction of some
\* enumerated image fails.
C18_FirstImage ==
    (imgCall.op = "done" /\ imgCall.bbox = <<>>) =>
        /\ LookupImages = <<>> => imgCall.out = <<>>
        /\ imgCall.out # <<>> => imgCall.out = <<LookupImages[1].xref>>
        /\ (LookupImages # <<>> /\ ~LookupImages[1].broken) =>
              imgCall.out = <<LookupImages[1].xref>>

----------------------------------------------------------------------------
(* Properties of the answer *)

Generated == last.op = "answer" /\ ~last.raised /\ last.out.answer = "generated"

\* the chunk as load_chunks returns it for the candidate's manual
StoredChunk(cand) == dirs[cand.manual_id].chunks[1][cand.chunk.id]

\* s is t with some elements left out
RECURSIVE IsSubSeq(_, _)
IsSubSeq(s, t) ==
    IF s = <<>> THEN TRUE
    ELSE IF t = <<>> THEN FALSE
    ELSE IF Head(s) = Head(t) THEN IsSubSeq(Tail(s), Tail(t))
    ELSE IsSubSeq(s, Tail(t))

\* C19: a generated answer carries exactly one citation per selected
\* candidate, in candidate order, with that candidate's header, page, score
\* and has_image flag; a candidate whose image lookup finds nothing loses
\* only its image entry; the candidates are the stored chunks, unmodified.
C19_Citations ==
    Generated =>
        LET cands == last.out.cands
            cits  == last.out.citations
            imgs  == last.out.images
        IN  /\ cands = gather_candidates(last.query, last.top_k, FALSE, last.loadFails).cands
            /\ Len(cits) = Len(cands)
            /\ \A i \in DOMAIN cands :
                  /\ cits[i].title = cands[i].chunk.header
                  /\ cits[i].page = cands[i].chunk.start_page
                  /\ cits[i].score = cands[i].score
                  /\ cits[i].has_image = cands[i].chunk.has_image
                  /\ cands[i].chunk = StoredChunk(cands[i])
            /\ IsSubSeq([i \in DOMAIN imgs |-> [title |-> imgs[i].title, page |-> imgs[i].page]],
                        [i \in DOMAIN cands |->
                            [title |-> cands[i].chunk.header,
                             page |-> cands[i].chunk.start_page]])
            /\ \A i \in DOMAIN imgs :
                  \E j \in DOMAIN cands :
                      /\ cands[j].chunk.has_image
                      /\ imgs[i].title = cands[j].chunk.header

\* two illustrated candidates, the image of one of them is not found on its
\* start page: two citations, one image entry
C19_Witness ==
    /\ Generated
    /\ Len(last.out.cands) = 2
    /\ \A i \in 1..2 : last.out.cands[i].chunk.has_image
    /\ Len(last.out.citations) = 2
    /\ Len(last.out.images) = 1

\* C20: every result answer returns, on every path (no manuals, no
\* candidates, generated answer), holds the three fields of the produced
\* interface: the answer text, the citations and the images.
C20_ThreeFields ==
    (last.op = "answer" /\ ~last.raised) =>
        last.out.keys = {"answer", "citations", "images"}

----------------------------------------------------------------------------
(* Properties of the upload pipeline *)

\* C21: on every exit path of the upload pipeline, a failure at any step
\* from writing the temporary file onwards included, the temporary PDF file
\* that was created has been removed when the handler finishes.
C21_TempFileRemoved ==
    last.op = "upload" => ~last.tmp_left

----------------------------------------------------------------------------
(* Properties of the candidates' rows *)

\* the listed manuals the last query could load
UsableManuals ==
    {m \in CatalogIds(catalog) :
        m \notin last.loadFails /\ dirs[m].index # <<>> /\ dirs[m].chunks # <<>>}

RECURSIVE SumRows(_, _)
SumRows(ms, top_k) ==
    IF ms = {} THEN 0
    ELSE LET m == CHOOSE x \in ms : TRUE
         IN  Min(top_k, Len(dirs[m].chunks[1])) + SumRows(ms \ {m}, top_k)

\* C22: every candidate of manual m carries exactly chunks_m[i] for a row i
\* returned by that manual's search with 0 <= i < len(chunks_m), scored as
\* that row; sentinel and out-of-range rows give no candidate, and the other
\* rows of the same search result are still used.
C22_RowAlignment ==
    (LastIsQuery /\ ~last.raised) =>
        LET qv == embed_query(last.query)
        IN  /\ \A k \in DOMAIN LastCands :
                  LET c == LastCands[k]
                      d == dirs[c.manual_id]
                  IN  /\ c.manual_id \in UsableManuals
                      /\ \E i \in 0..(Len(d.chunks[1]) - 1) :
                            /\ c.chunk = d.chunks[1][i + 1]
                            /\ \E p \in 1..last.top_k :
                                  LET h == faiss_search(d.index[1], qv, last.top_k)[p]
                                  IN  h.row = i /\ h.score = c.score
                      /\ c.score = InnerProduct(Embed(DocText(c.chunk)), qv)
            /\ Len(LastCands) = Min(last.top_k, SumRows(UsableManuals, last.top_k))

\* top_k = 3 against a single manual of two chunks: the search result is
\* padded with one sentinel row and both chunks are candidates
C22_Witness ==
    /\ last.op = "retrieve" /\ ~last.raised
    /\ last.top_k = 3
    /\ Cardinality(UsableManuals) = 1
    /\ \A m \in UsableManuals :
          /\ Len(dirs[m].chunks[1]) = 2
          /\ faiss_search(dirs[m].index[1], embed_query(last.query), 3)[3].row = -1
    /\ Len(last.cands) = 2

----------------------------------------------------------------------------
(* Properties of the query embedding *)

\* C23: retrieve embeds the query exactly once per call, whatever the number
\* of manuals, and a failure of that call propagates to the caller of
\* retrieve or answer: it is not retried and not absorbed by the skipping of
\* failing manuals.
C23_EmbedOnce ==
    /\ last.op = "retrieve" =>
          /\ last.embeds = 1
          /\ last.embedFails => (last.raised /\ last.cands = <<>>)
    /\ (last.op = "answer" /\ catalog # <<>>) =>
          /\ last.out.embeds = 1
          /\ last.embedFails => (last.raised /\ last.out.llm = 0)

\* the embedding fails in a retrieve over two loadable manuals: one call,
\* and the retrieve raises
C23_Witness ==
    /\ last.op = "retrieve"
    /\ Cardinality(Loadable) = 2
    /\ last.embedFails /\ last.raised
    /\ last.embeds = 1

----------------------------------------------------------------------------
(* Properties of the metadata counts *)

\* the step being taken rewrites the meta.json of manual m
MetaRewritten(m) ==
    /\ dirs[m].meta # <<>> /\ dirs'[m].meta # <<>>
    /\ dirs'[m].meta # dirs[m].meta

----------------------------------------------------------------------------
(* Quiz generation: rag/quiz.py generate_quiz *)

(* A parsed JSON object of the generation service.  A key that is absent is
   FALSE, -1 or <<>>; options is the length of the options list. *)
Payload(question, options, answer_index, items_shuffled, correct_order) ==
    [question |-> question, options |-> options, answer_index |-> answer_index,
     items_shuffled |-> items_shuffled, correct_order |-> correct_order,
     explanation |-> <<>>, citation |-> <<>>]

GoodMcq == Payload(TRUE, 4, <<2>>, FALSE, FALSE)
McqNoAnswer == Payload(TRUE, 4, <<>>, FALSE, FALSE)
McqBadAnswer == Payload(TRUE, 4, <<4>>, FALSE, FALSE)
McqThreeOptions == Payload(TRUE, 3, <<0>>, FALSE, FALSE)
GoodOrdering == Payload(TRUE, -1, <<>>, TRUE, TRUE)
OrderingNoOrder == Payload(TRUE, -1, <<>>, TRUE, FALSE)

SamplePayloads ==
    {GoodMcq, McqNoAnswer, McqBadAnswer, McqThreeOptions, GoodOrdering, OrderingNoOrder}

(* What one call of the generation service gives: the call raises, the text
   is not JSON, the JSON is not an object, or the JSON is an object. *)
ChunkResponses ==
    {[kind |-> "raise"], [kind |-> "text"], [kind |-> "nondict"]}
        \cup {[kind |-> "object", data |-> p] : p \in SamplePayloads}

BatchPayloads == {GoodMcq, McqThreeOptions, GoodOrdering}

BatchLists == UNION {[1..len -> BatchPayloads] : len \in 0..MaxBatch}

BatchResponses ==
    {[kind |-> "raise"], [kind |-> "text"], [kind |-> "nondict"]}
        \cup {[kind |-> "list", data |-> l] : l \in BatchLists}

QuizChunkA == [header |-> "h1", content |-> <<"a">>, start_page |-> 1]
QuizChunkB == [header |-> "h2", content |-> <<"b">>, start_page |-> 2]
QuizChunkBlank == [header |-> "h3", content |-> <<>>, start_page |-> 3]

QuizPools == UNION {[1..len -> {QuizChunkA, QuizChunkB, QuizChunkBlank}] : len \in 0..MaxPool}

(* quiz.py 130-135: the batch answer is returned when it is a non-empty list *)
BatchUsable(resp) == resp.kind = "list" /\ Len(resp.data) > 0

(* quiz.py 133: data[:num_questions] *)
Truncate(data, num_questions) == SubSeq(data, 1, Min(num_questions, Len(data)))

(* quiz.py 183: for attempt in range(2) *)
Attempts == 2

(* quiz.py 204-220: the checks of one attempt, and the item appended *)
AcceptAttempt(quiz_type, resp) ==
    /\ resp.kind = "object"
    /\ IF quiz_type = "ordering"
       THEN resp.data.items_shuffled /\ resp.data.correct_order
       ELSE /\ resp.data.question
            /\ resp.data.options = 4
            /\ LET ans_idx == IF resp.data.answer_index = <<>> THEN 0
                              ELSE resp.data.answer_index[1]
               IN  0 <= ans_idx /\ ans_idx < 4

Cite(ch) == <<[title |-> ch.header, page |-> ch.start_page]>>

ItemOfAttempt(quiz_type, data, ch) ==
    IF quiz_type = "ordering"
    THEN [data EXCEPT !.citation = Cite(ch)]
    ELSE [data EXCEPT !.explanation = IF @ = <<>> THEN <<"">> ELSE @,
                      !.citation = Cite(ch)]

(* quiz.py 261-273: the checks of the final simplified attempt *)
AcceptFinal(quiz_type, resp) ==
    /\ resp.kind = "object"
    /\ IF quiz_type = "ordering"
       THEN resp.data.items_shuffled /\ resp.data.correct_order
       ELSE resp.data.question /\ resp.data.options = 4

(* quiz.py 282: qs.append(qs[len(qs) % len(qs)]) *)
PadOnce_stalls(qs) == qs

PadOnce(qs) == Append(qs, qs[(Len(qs) % Len(qs)) + 1])

(* quiz.py 141: range(min(num_questions, len(base_pool))) *)
ChunkRounds == Min(quizRun.num_questions, Len(quizRun.base_pool))

QuizDone(out, raised) ==
    [quizRun EXCEPT !.pc = "done", !.out = out, !.raised = raised]

OthersQuiz ==
    UNCHANGED <<catalog, dirs, nextId, up, last, deleted, pdoc, ppos, pst,
                ctxIn, ctxOut, imgCall, catRun, chatRun>>

(* quiz.py 116-139: the batch call, its parse, and the entry of the fallback *)
QuizBatch ==
    /\ quizRun.pc = "batch"
    /\ \E resp \in BatchResponses :
          IF resp.kind = "raise"
          THEN quizRun' = [QuizDone(<<>>, TRUE) EXCEPT !.batch = <<resp>>]
          ELSE IF BatchUsable(resp)
          THEN quizRun' = [QuizDone(Truncate(resp.data, quizRun.num_questions), FALSE)
                              EXCEPT !.batch = <<resp>>]
          ELSE \E perm \in Permutations(DOMAIN quizRun.base_pool) :
                  quizRun' = [quizRun EXCEPT
                                 !.pc = "loop", !.batch = <<resp>>, !.fallback = TRUE,
                                 !.base_pool = [k \in DOMAIN quizRun.base_pool |->
                                                    quizRun.base_pool[perm[k]]]]
    /\ OthersQuiz

(* quiz.py 141-148: the loop head and the skip of a chunk without content *)
QuizNextChunk ==
    /\ quizRun.pc = "loop"
    /\ IF quizRun.i > ChunkRounds
       THEN quizRun' = [quizRun EXCEPT !.pc = "pad"]
       ELSE IF quizRun.base_pool[quizRun.i].content = <<>>
       THEN quizRun' = [quizRun EXCEPT !.i = @ + 1]
       ELSE quizRun' = [quizRun EXCEPT !.pc = "attempt", !.attempt = 0]
    /\ OthersQuiz

(* quiz.py 183-224: one pass of the attempt loop *)
QuizAttempt ==
    /\ quizRun.pc = "attempt"
    /\ \E resp \in ChunkResponses :
          LET ch == quizRun.base_pool[quizRun.i]
              counted == [quizRun EXCEPT !.calls[quizRun.i] = @ + 1]
          IN  IF AcceptAttempt(quizRun.quiz_type, resp)
              THEN quizRun' = [counted EXCEPT
                                 !.qs = Append(@, ItemOfAttempt(quizRun.quiz_type, resp.data, ch)),
                                 !.i = @ + 1, !.pc = "loop"]
              ELSE IF quizRun.attempt + 1 < Attempts
              THEN quizRun' = [counted EXCEPT !.attempt = @ + 1]
              ELSE quizRun' = [counted EXCEPT !.pc = "final"]
    /\ OthersQuiz

(* quiz.py 227-278: the final simplified attempt *)
QuizFinal ==
    /\ quizRun.pc = "final"
    /\ \E resp \in ChunkResponses :
          LET ch == quizRun.base_pool[quizRun.i]
              counted == [quizRun EXCEPT !.calls[quizRun.i] = @ + 1,
                                         !.i = @ + 1, !.pc = "loop"]
          IN  IF AcceptFinal(quizRun.quiz_type, resp)
              THEN quizRun' = [counted EXCEPT
                                 !.qs = Append(@, ItemOfAttempt(quizRun.quiz_type, resp.data, ch))]
              ELSE quizRun' = counted
    /\ OthersQuiz

(* quiz.py 281-282: one pass of the padding loop *)
QuizPad ==
    /\ quizRun.pc = "pad"
    /\ Len(quizRun.qs) < quizRun.num_questions
    /\ Len(quizRun.qs) > 0
    /\ quizRun' = [quizRun EXCEPT !.qs = PadOnce(@), !.padded = TRUE]
    /\ OthersQuiz

(* quiz.py 281, 284: the padding loop ends, return qs[:num_questions] *)
QuizReturn ==
    /\ quizRun.pc = "pad"
    /\ ~(Len(quizRun.qs) < quizRun.num_questions /\ Len(quizRun.qs) > 0)
    /\ quizRun' = QuizDone(Truncate(quizRun.qs, quizRun.num_questions), FALSE)
    /\ OthersQuiz

InitQuiz ==
    /\ catalog = <<>>
    /\ dirs = [id \in AllIds |-> NoDir]
    /\ nextId = 1
    /\ up = UploadIdle
    /\ last = NoCall
    /\ deleted = {}
    /\ pdoc = <<>>
    /\ ppos = 0
    /\ pst = ParserInit
    /\ ctxIn = [cands |-> <<>>, max_chars |-> 0, called |-> FALSE]
    /\ ctxOut = <<>>
    /\ imgCall = ImgIdle
    /\ catRun = CatIdle
    /\ chatRun = ChatIdle
    /\ \E num_questions \in 1..MaxQuestions, quiz_type \in {"mcq", "ordering"},
          base_pool \in QuizPools :
          quizRun = [pc |-> "batch", num_questions |-> num_questions,
                     quiz_type |-> quiz_type, base_pool |-> base_pool,
                     batch |-> <<>>, fallback |-> FALSE, i |-> 1, attempt |-> 0,
                     calls |-> [k \in DOMAIN base_pool |-> 0],
                     qs |-> <<>>, padded |-> FALSE, out |-> <<>>, raised |-> FALSE]

NextQuiz ==
    \/ QuizBatch
    \/ QuizNextChunk
    \/ QuizAttempt
    \/ QuizFinal
    \/ QuizPad
    \/ QuizReturn

SpecQuiz == InitQuiz /\ [][NextQuiz]_vars

(* generate_quiz is one synchronous call: the interpreter keeps running it. *)
SpecQuizLive == SpecQuiz /\ WF_vars(NextQuiz)

(* C25: generate_quiz terminates with at most num_questions items; the
   per-chunk tier is entered only when the batch response is not a non-empty
   JSON list; in it each chunk causes at most three generation calls; the
   padding loop terminates. *)
C25_Terminates ==
    /\ <>(quizRun.pc = "done")
    /\ [](quizRun.pc = "done" => Len(quizRun.out) <= quizRun.num_questions)
    /\ [](quizRun.fallback => (quizRun.batch # <<>> /\ ~BatchUsable(quizRun.batch[1])))
    /\ []((quizRun.batch # <<>> /\ ~BatchUsable(quizRun.batch[1])
             /\ quizRun.batch[1].kind # "raise") => quizRun.fallback)
    /\ [](\A k \in DOMAIN quizRun.calls : quizRun.calls[k] <= 3)
    /\ [](quizRun.pc = "pad" => <>(quizRun.pc = "done"))

C25_Witness ==
    /\ quizRun.pc = "done"
    /\ quizRun.fallback
    /\ \E k \in DOMAIN quizRun.calls : quizRun.calls[k] = 3
    /\ quizRun.padded
    /\ Len(quizRun.out) = quizRun.num_questions
    /\ Len(quizRun.out) = 3

(* C26: every item generate_quiz returns is a validated quiz item: an MCQ item
   has a question, exactly four options and an integer answer_index in 0..3,
   an ordering item has items_shuffled and correct_order. *)
ValidItem(quiz_type, item) ==
    IF quiz_type = "ordering"
    THEN item.items_shuffled /\ item.correct_order
    ELSE /\ item.question
         /\ item.options = 4
         /\ item.answer_index # <<>>
         /\ item.answer_index[1] \in 0..3

C26_ValidatedItems ==
    quizRun.pc = "done" =>
        \A k \in DOMAIN quizRun.out : ValidItem(quizRun.quiz_type, quizRun.out[k])

----------------------------------------------------------------------------
(* Catalog operations of two sessions: rag/store.py register_manual and
   delete_manual, each step a file operation of its own.  The catalog file
   carries no lock, and every browser session runs the handlers in a thread
   of its own. *)

Sessions == {1, 2}

SessionIdle == [pc |-> "idle", op |-> "none", id |-> 0, local |-> <<>>]

OthersCat ==
    UNCHANGED <<up, last, pdoc, ppos, pst, ctxIn, ctxOut, imgCall, quizRun, chatRun>>

(* store.py 59-77: the id, the directory, the PDF copy and meta.json *)
CatRegisterBegin(s) ==
    /\ catRun.sess[s].pc = "idle"
    /\ nextId <= MaxManuals
    /\ \E title \in Titles :
          LET r == register_manual(title, PdfA, "catalog")
          IN  /\ dirs' = r.dirs
              /\ catRun' = [catRun EXCEPT
                               !.sess[s] = [pc |-> "load", op |-> "register", id |-> r.id,
                                            title |-> title, local |-> <<>>]]
    /\ nextId' = nextId + 1
    /\ UNCHANGED <<catalog, deleted>>
    /\ OthersCat

(* store.py 118-128: delete_manual is called for a listed manual that no
   other session is working on *)
CatDeleteBegin(s) ==
    /\ catRun.sess[s].pc = "idle"
    /\ \E id \in CatalogIds(catalog) :
          /\ \A t \in Sessions : catRun.sess[t].pc # "idle" => catRun.sess[t].id # id
          /\ catRun' = [catRun EXCEPT
                           !.sess[s] = [pc |-> "load", op |-> "delete", id |-> id,
                                        title |-> "", local |-> <<>>]]
    /\ UNCHANGED <<catalog, dirs, nextId, deleted>>
    /\ OthersCat

(* store.py 79 and 130: catalog = load_catalog() *)
CatLoad(s) ==
    /\ catRun.sess[s].pc = "load"
    /\ catRun' = [catRun EXCEPT !.sess[s].local = catalog, !.sess[s].pc = "save"]
    /\ UNCHANGED <<catalog, dirs, nextId, deleted>>
    /\ OthersCat

(* store.py 80-83: append the entry to the loaded catalog, save it, return *)
CatSaveRegister(s) ==
    /\ catRun.sess[s].pc = "save"
    /\ catRun.sess[s].op = "register"
    /\ catalog' = Append(catRun.sess[s].local,
                         [id |-> catRun.sess[s].id, title |-> catRun.sess[s].title])
    /\ catRun' = [catRun EXCEPT !.sess[s] = SessionIdle,
                                !.registered = @ \cup {catRun.sess[s].id}]
    /\ UNCHANGED <<dirs, nextId, deleted>>
    /\ OthersCat

(* store.py 131-133: filter the loaded catalog and save it *)
CatSaveDelete(s) ==
    /\ catRun.sess[s].pc = "save"
    /\ catRun.sess[s].op = "delete"
    /\ catalog' = SelectSeq(catRun.sess[s].local, LAMBDA m : m.id # catRun.sess[s].id)
    /\ catRun' = [catRun EXCEPT !.sess[s].pc = "rmtree"]
    /\ UNCHANGED <<dirs, nextId, deleted>>
    /\ OthersCat

(* store.py 136-140: remove the directory, return True *)
CatRmtree(s) ==
    /\ catRun.sess[s].pc = "rmtree"
    /\ dirs' = [dirs EXCEPT ![catRun.sess[s].id] = NoDir]
    /\ deleted' = deleted \cup {catRun.sess[s].id}
    /\ catRun' = [catRun EXCEPT !.sess[s] = SessionIdle]
    /\ UNCHANGED <<catalog, nextId>>
    /\ OthersCat

InitCat ==
    /\ catalog = <<>>
    /\ dirs = [id \in AllIds |-> NoDir]
    /\ nextId = 1
    /\ up = UploadIdle
    /\ last = NoCall
    /\ deleted = {}
    /\ pdoc = <<>>
    /\ ppos = 0
    /\ pst = ParserInit
    /\ ctxIn = [cands |-> <<>>, max_chars |-> 0, called |-> FALSE]
    /\ ctxOut = <<>>
    /\ imgCall = ImgIdle
    /\ quizRun = QuizIdle
    /\ chatRun = ChatIdle
    /\ catRun = [sess |-> [s \in Sessions |-> SessionIdle], registered |-> {}]

NextCat ==
    \E s \in Sessions :
        \/ CatRegisterBegin(s)
        \/ CatDeleteBegin(s)
        \/ CatLoad(s)
        \/ CatSaveRegister(s)
        \/ CatSaveDelete(s)
        \/ CatRmtree(s)

SpecCat == InitCat /\ [][NextCat]_vars

(* C27: when the catalog operations of two sessions interleave, the catalog
   holds, once both have returned, every registered manual that was not
   deleted: no entry is lost to a concurrent write. *)
Quiescent == \A s \in Sessions : catRun.sess[s].pc = "idle"

C27_NoLostEntry ==
    (catRun # CatIdle /\ Quiescent) =>
        (catRun.registered \ deleted) \subseteq CatalogIds(catalog)

----------------------------------------------------------------------------
(* Chat session: app.py session state, _new_chat, _sidebar, _chat_body.
   A chat id "chat-n" is the number n; conversations keeps the insertion order
   of the dict; None is <<>>.  Every click is one run of the script, and
   st.rerun() ends the run and asks for another one. *)

ChatIds(conversations) == {conversations[i].id : i \in DOMAIN conversations}

ChatKeys(conversations) == [i \in DOMAIN conversations |-> conversations[i].id]

Messages(st, cid) ==
    LET i == CHOOSE i \in DOMAIN st.conversations : st.conversations[i].id = cid
    IN  st.conversations[i].msgs

(* conversations[chat_id] = value: a new key goes to the end, an existing key
   keeps its place *)
SetConversation(conversations, cid, msgs) ==
    IF cid \in ChatIds(conversations)
    THEN [i \in DOMAIN conversations |->
             IF conversations[i].id = cid THEN [id |-> cid, msgs |-> msgs]
             ELSE conversations[i]]
    ELSE Append(conversations, [id |-> cid, msgs |-> msgs])

SetTitle(chat_titles, cid, title) ==
    [c \in DOMAIN chat_titles \cup {cid} |-> IF c = cid THEN title ELSE chat_titles[c]]

(* app.py 64-69 *)
new_chat(st) ==
    LET chat_id == Len(st.conversations) + 1
    IN  [st EXCEPT !.conversations = SetConversation(@, chat_id, <<>>),
                   !.chat_titles = SetTitle(@, chat_id, "new"),
                   !.active_chat = <<chat_id>>,
                   !.event = [op |-> "new", id |-> chat_id]]

(* a delete that leaves active_chat as it is *)
delete_chat_keeps_active(st, cid) ==
    [st EXCEPT !.conversations = SelectSeq(@, LAMBDA c : c.id # cid),
               !.chat_titles = [c \in DOMAIN @ \ {cid} |-> @[c]],
               !.delete_pending = <<>>,
               !.event = [op |-> "delete", id |-> cid]]

(* app.py 133, 153-163: the confirmed delete of chat cid *)
delete_chat(st, cid) ==
    LET chats == ChatKeys(st.conversations)
        remaining == SelectSeq(chats, LAMBDA c : c # cid)
    IN  [st EXCEPT !.conversations = SelectSeq(@, LAMBDA c : c.id # cid),
                   !.chat_titles = [c \in DOMAIN @ \ {cid} |-> @[c]],
                   !.active_chat = IF @ = <<cid>>
                                   THEN (IF remaining # <<>> THEN <<remaining[1]>> ELSE <<>>)
                                   ELSE @,
                   !.delete_pending = <<>>,
                   !.event = [op |-> "delete", id |-> cid]]

(* app.py 360-361: _chat_body opens a chat when none is active *)
chat_body(st) == IF st.active_chat = <<>> THEN new_chat(st) ELSE st

OthersChat ==
    UNCHANGED <<catalog, dirs, nextId, up, last, deleted, pdoc, ppos, pst,
                ctxIn, ctxOut, imgCall, quizRun, catRun>>

(* a run of the script without a click: the first one, or one after st.rerun() *)
ChatRerun ==
    /\ chatRun.pc = "rerun"
    /\ chatRun' = [chat_body([chatRun EXCEPT !.event = [op |-> "run", id |-> 0]])
                      EXCEPT !.pc = "wait"]
    /\ OthersChat

(* app.py 107-108: the new-chat button *)
ChatNew ==
    /\ chatRun.pc = "wait"
    /\ Len(chatRun.conversations) < MaxChats
    /\ chatRun' = chat_body(new_chat(chatRun))
    /\ OthersChat

(* app.py 142-146: a chat's title button *)
ChatSelect ==
    /\ chatRun.pc = "wait"
    /\ \E cid \in ChatIds(chatRun.conversations) :
          chatRun' = chat_body([chatRun EXCEPT !.active_chat = <<cid>>,
                                               !.delete_pending = <<>>,
                                               !.event = [op |-> "select", id |-> cid]])
    /\ OthersChat

(* app.py 149-151: a chat's menu button *)
ChatMenu ==
    /\ chatRun.pc = "wait"
    /\ \E cid \in ChatIds(chatRun.conversations) :
          chatRun' = [chatRun EXCEPT
                         !.delete_pending = IF @ = <<cid>> THEN <<>> ELSE <<cid>>,
                         !.event = [op |-> "menu", id |-> cid],
                         !.pc = "rerun"]
    /\ OthersChat

(* app.py 153-163: the delete button under the chat whose menu is open *)
ChatDelete ==
    /\ chatRun.pc = "wait"
    /\ chatRun.delete_pending # <<>>
    /\ chatRun.delete_pending[1] \in ChatIds(chatRun.conversations)
    /\ chatRun' = [delete_chat(chatRun, chatRun.delete_pending[1]) EXCEPT !.pc = "rerun"]
    /\ OthersChat

(* app.py 412-484: a question typed into the active chat and its answer *)
ChatPrompt ==
    /\ chatRun.pc = "wait"
    /\ LET cid  == chatRun.active_chat[1]
           conv == Messages(chatRun, cid)
       IN  /\ Len(conv) < 2 * MaxTurns
           /\ chatRun' = [chatRun EXCEPT
                             !.chat_titles = IF Len(conv) = 0 THEN SetTitle(@, cid, "q") ELSE @,
                             !.conversations =
                                 SetConversation(@, cid, conv \o <<"user", "assistant">>),
                             !.event = [op |-> "prompt", id |-> cid]]
    /\ OthersChat

InitChat ==
    /\ catalog = <<>>
    /\ dirs = [id \in AllIds |-> NoDir]
    /\ nextId = 1
    /\ up = UploadIdle
    /\ last = NoCall
    /\ deleted = {}
    /\ pdoc = <<>>
    /\ ppos = 0
    /\ pst = ParserInit
    /\ ctxIn = [cands |-> <<>>, max_chars |-> 0, called |-> FALSE]
    /\ ctxOut = <<>>
    /\ imgCall = ImgIdle
    /\ quizRun = QuizIdle
    /\ catRun = CatIdle
    /\ chatRun = [pc |-> "rerun", conversations |-> <<>>, chat_titles |-> <<>>,
                  active_chat |-> <<>>, delete_pending |-> <<>>,
                  event |-> [op |-> "none", id |-> 0]]

NextChat ==
    \/ ChatRerun
    \/ ChatNew
    \/ ChatSelect
    \/ ChatMenu
    \/ ChatDelete
    \/ ChatPrompt

SpecChat == InitChat /\ [][NextChat]_vars

(* C28: creating a new chat allocates an id that is not the id of an existing
   conversation, so it never replaces the messages or the title of one. *)
C28_FreshChatId ==
    [][chatRun'.event.op = "new" =>
          /\ chatRun'.event.id \notin ChatIds(chatRun.conversations)
          /\ \A cid \in ChatIds(chatRun.conversations) :
                /\ Messages(chatRun', cid) = Messages(chatRun, cid)
                /\ chatRun'.chat_titles[cid] = chatRun.chat_titles[cid]]_vars

(* C30: active_chat is None or the id of an existing conversation, the ids
   with a title are the ids with a conversation, and deleting the active chat
   makes the first remaining chat active, or None when none remains. *)
C30_ActiveChat ==
    /\ [](chatRun.active_chat # <<>> =>
              chatRun.active_chat[1] \in ChatIds(chatRun.conversations))
    /\ [](DOMAIN chatRun.chat_titles = ChatIds(chatRun.conversations))
    /\ [][(chatRun'.event.op = "delete" /\ chatRun.active_chat = <<chatRun'.event.id>>) =>
             (IF chatRun'.conversations = <<>>
              THEN chatRun'.active_chat = <<>>
              ELSE chatRun'.active_chat = <<chatRun'.conversations[1].id>>)]_vars

C30_Witness ==
    /\ chatRun # ChatIdle
    /\ chatRun.event.op = "delete"
    /\ Len(chatRun.conversations) = 2
    /\ chatRun.active_chat = <<chatRun.conversations[1].id>>
    /\ chatRun.event.id < chatRun.conversations[1].id

----------------------------------------------------------------------------
(* C29: during segmentation an accumulator, once opened, stays open until the
   end of the document: "no open accumulator while finalized chunks exist" is
   unreachable, and the branch that prepends a table or image to the previous
   finalized chunk is never executed. *)
Segmenting == ppos >= 0

C29_AccumulatorStaysOpen ==
    /\ [](Segmenting => ~(pst.cur = <<>> /\ pst.final # <<>>))
    /\ [](~pst.raised)
    /\ [][(Segmenting /\ ppos' >= 0 /\ pst.cur # <<>>) => pst'.cur # <<>>]_vars

C29_Witness ==
    /\ ppos >= 1
    /\ pst.cur # <<>>
    /\ pst.final # <<>>
    /\ FlatElements(pdoc, 1)[ppos].elem.type \in {"table", "image"}

====
